---------------------------- MODULE Spec2Model ----------------------------
(***************************************************************************)
(* Control loop of the touch/audio/display appliance                       *)
(* (src/DMART_pico_code_v2.py): the cooperative main loop, the debounced   *)
(* pad scan, the button hold protocol, playback, sleep / wake, power-off   *)
(* and the interaction counter.                                            *)
(*                                                                         *)
(* Time.  time.monotonic() is unbounded, so every stored timestamp t is    *)
(* represented by its age now - t, capped at the largest threshold it is   *)
(* compared with.  One unit of time is one pass of the shortest sleep of   *)
(* the loop (time.sleep(0.01)); the durations of the source are scaled to  *)
(* a few units each, keeping their order:                                  *)
(*   poll sleep < debounce <= fixed pauses < hold, release timeout         *)
(*   <= chatter dwell < inactivity timeout,                                *)
(* and the inactivity timeout exceeds the pauses of any one handler.       *)
(* The raw input lines change at any moment, between any two steps of the  *)
(* program; the program sees them only when it reads them.                 *)
(***************************************************************************)
EXTENDS Integers, Sequences, FiniteSets, TLC

(* ------------------------------ bounds ---------------------------------- *)
\* number of touch pads modelled (TOUCH_MAP has 5)
NumPads == 2
\* TOUCH_DEBOUNCE_MS (80 ms) in time units
DebounceTicks == 2
\* the fixed pauses of 0.1 s .. 3 s (settle delays, message dwells, cooldown)
PauseTicks == 2
\* POWER_OFF_HOLD_S (5 s) in time units
HoldTicks == 3
\* the release-wait timeout (5.0 s) in time units
ReleaseTicks == 3
\* SLEEP_AFTER_S (300 s) in time units
SleepAfterTicks == 10
\* COUNTDOWN_SHOW_S (60 s) in time units
CountdownTicks == 2
\* IDLE_CHATTER_S (60 s) in time units
ChatterTicks == 3
\* SLEEP_PULSE_S (2.5 s) in passes of the sleeping branch
PulseTicks == 5
\* BAT_UPDATE_S (30 s) in time units
BatUpdateTicks == 1
\* the fires the environment provokes over the device's life
MaxCount == 2
\* the increments applied to the counter taken alone
CounterSteps == 12
\* the fires followed by the easter-egg window taken alone
EggLen == 5
\* the steps of EYE_SEQUENCE the animation cycles through (it has 12)
EyeSteps == 3
\* the bytes written to the display's bus where _i2c_write is specified
\* alone, and the failed try_lock calls counted
MaxWire == 3
MaxSpins == 2
\* the fires left before the first milestone where the fire handling is
\* taken with all five pads
EggFires == 3

(* -------------------------- program constants --------------------------- *)
BAT_LOW_PCT == 15
BAT_CRIT_PCT == 5
FLUSH_EVERY == 10
NVM_CEILING == 1000000
RELEASE_REQUIRED == TRUE
EASTER_EGG_SEQ == <<0, 2, 4>>
MILESTONES == {50, 100, 200, 500, 1000}
NumMsgs == 20
\* touch_high_since[i] == 0.0: no debounce window is open
NoTime == -1
\* no pad (the scan fired nothing)
NoPad == -1
\* len(TOUCH_MAP): the pads a fire can name to _check_easter_egg
NumTouchPads == 5

Pads == 0 .. (NumPads - 1)

\* the expressions of the pads, (left, right); right "none" is symmetric
TOUCH_EXPR ==
    <<  <<"surprised", "none">>, <<"center", "none">>, <<"happy", "none">>,
        <<"center", "wink_shut">>, <<"surprised", "none">> >>

\* (expression, duration): durations 0.15 s -> 1 unit, 1 s .. 3 s -> 2 units
EYE_SEQUENCE ==
    <<  [expr |-> <<"center", "none">>,      dur |-> 2],
        [expr |-> <<"blink", "none">>,       dur |-> 1],
        [expr |-> <<"center", "none">>,      dur |-> 2],
        [expr |-> <<"left", "none">>,        dur |-> 2],
        [expr |-> <<"center", "none">>,      dur |-> 2],
        [expr |-> <<"right", "none">>,       dur |-> 2],
        [expr |-> <<"center", "none">>,      dur |-> 2],
        [expr |-> <<"blink", "none">>,       dur |-> 1],
        [expr |-> <<"center", "none">>,      dur |-> 2],
        [expr |-> <<"center", "wink_shut">>, dur |-> 2],
        [expr |-> <<"center", "none">>,      dur |-> 2],
        [expr |-> <<"happy", "none">>,       dur |-> 2] >>

MOUTH_FOR_EXPR ==
    [e \in {"center", "left", "right", "blink", "happy", "surprised",
            "sleepy", "wink_shut"} |->
        CASE e = "happy"     -> "smile"
          [] e = "surprised" -> "open"
          [] e = "wink_shut" -> "smile"
          [] OTHER           -> "neutral"]

(* Texts are sequences of characters, so that the fitting of a line to    *)
(* the display's width cuts and pads them as the code does.               *)
\* the display's width
LCD_COLS == 20

\* "Touch a panel"
TouchAPanel ==
    <<"T", "o", "u", "c", "h", " ", "a", " ", "p", "a", "n", "e", "l">>
\* "Press I/O"
PressIO ==
    <<"P", "r", "e", "s", "s", " ", "I", "/", "O">>
\* "Start Button"
StartButtonLabel ==
    <<"S", "t", "a", "r", "t", " ", "B", "u", "t", "t", "o", "n">>
\* "Booting..."
Booting ==
    <<"B", "o", "o", "t", "i", "n", "g", ".", ".", ".">>
\* "please wait"
PleaseWait ==
    <<"p", "l", "e", "a", "s", "e", " ", "w", "a", "i", "t">>
\* "Missing file"
MissingFile ==
    <<"M", "i", "s", "s", "i", "n", "g", " ", "f", "i", "l", "e">>
\* "Powering off..."
PoweringOffLine ==
    <<"P", "o", "w", "e", "r", "i", "n", "g", " ", "o", "f", "f", ".",
      ".", ".">>
\* "Poked " and " times!" of f"Poked {_interaction_count} times!"
PokedWord ==
    <<"P", "o", "k", "e", "d", " ">>
TimesWord ==
    <<" ", "t", "i", "m", "e", "s", "!">>
EASTER_EGG_MSG ==
    <<"Y", "o", "u", " ", "f", "o", "u", "n", "d", " ", "t", "h", "e",
      " ", "s", "e", "c", "r", "e", "t", "!">>
\* the file names of the clips: path.split("/")[-1]
StartButtonWav ==
    <<"S", "t", "a", "r", "t", "B", "u", "t", "t", "o", "n", ".", "w",
      "a", "v">>
TOUCH_WAV ==
    <<
        <<"S", "t", "a", "r", "t", "U", "p", ".", "w", "a", "v">>,
        <<"T", "i", "p", "2", ".", "w", "a", "v">>,
        <<"T", "i", "p", "3", ".", "w", "a", "v">>,
        <<"T", "i", "p", "4", ".", "w", "a", "v">>,
        <<"T", "i", "p", "5", ".", "w", "a", "v">> >>

CLIMATE_MSGS ==
    <<
        <<"P", "l", "a", "n", "e", "t", " ", "B", "?", " ", "N", "o",
          "p", "e", ".">>,
        <<"A", "c", "t", " ", "n", "o", "w", " ", "o", "r", " ", "s",
          "w", "i", "m", " ", "l", "a", "t", "e", "r">>,
        <<"C", "o", "o", "l", " ", "i", "t", ".", " ", "L", "i", "t",
          "e", "r", "a", "l", "l", "y", ".">>,
        <<"F", "o", "s", "s", "i", "l", " ", "f", "o", "o", "l", "s",
          " ", "b", "e", "w", "a", "r", "e">>,
        <<"T", "h", "e", " ", "s", "e", "a", " ", "i", "s", " ", "r",
          "i", "s", "i", "n", "g", ".", ".", ".">>,
        <<"E", "a", "r", "t", "h", ":", " ", "H", "a", "n", "d", "l",
          "e", " ", "w", "/", "c", "a", "r", "e">>,
        <<"L", "e", "s", "s", " ", "t", "a", "l", "k", " ", "m", "o",
          "r", "e", " ", "t", "r", "e", "e", "s">>,
        <<"Y", "o", "u", "r", " ", "i", "c", "e", " ", "c", "a", "p",
          "s", " ", "c", "a", "l", "l", "e", "d">>,
        <<"C", "o", "m", "p", "o", "s", "t", " ", "h", "a", "p", "p",
          "e", "n", "s">>,
        <<"S", "k", "i", "p", " ", "t", "h", "e", " ", "s", "t", "r",
          "a", "w">>,
        <<"T", "r", "e", "e", "s", " ", ">", " ", "T", "w", "e", "e",
          "t", "s">>,
        <<"G", "o", " ", "g", "r", "e", "e", "n", " ", "o", "r", " ",
          "g", "o", " ", "h", "o", "m", "e">>,
        <<"T", "h", "i", "n", "k", " ", "g", "l", "o", "b", "a", "l",
          " ", "a", "c", "t", " ", "n", "o", "w">>,
        <<"C", "a", "r", "b", "o", "n", " ", "w", "h", "o", "?", " ",
          "F", "o", "o", "t", "w", "h", "a", "t">>,
        <<"R", "e", "c", "y", "c", "l", "e", " ", "t", "h", "i", "s",
          " ", "t", "h", "o", "u", "g", "h", "t">>,
        <<"H", "u", "g", " ", "a", " ", "t", "r", "e", "e", " ", "t",
          "o", "d", "a", "y">>,
        <<"B", "e", " ", "t", "h", "e", " ", "c", "h", "a", "n", "g",
          "e", ".", " ", "N", "o", "w", ".">>,
        <<"S", "a", "v", "e", " ", "w", "a", "t", "e", "r", ".", " ",
          "D", "r", "i", "n", "k", " ", "t", "e", "a">>,
        <<"R", "e", "d", "u", "c", "e", ".", " ", "R", "e", "u", "s",
          "e", ".", " ", "R", "e", "l", "a", "x">>,
        <<"E", "a", "r", "t", "h", " ", "c", "a", "l", "l", "e", "d",
          ".", " ", "P", "i", "c", "k", " ", "u", "p">> >>


\* the raw streams read_battery_pct samples: five ADC values each.  A
\* battery steady at 3.25 V, at 3.35 V, and a sense line at the rail
Raw(v) == <<v, v, v, v, v>>
RawCritical == Raw(21515)
RawLow == Raw(22177)
RawFull == Raw(65535)
\* the ADC values of the streams read_battery_pct is specified alone on:
\* the ends of the 16-bit range, and values across the battery's range
AdcValues == {0, 21515, 22177, 24000, 26000, 65535}
\* the streams: every steady one, every mix of an empty, a mid and a full
\* reading, and one that rises across the five samples
AdcStreams ==
    {Raw(v) : v \in AdcValues} \cup [1 .. 5 -> {0, 24000, 65535}]
        \cup {<<0, 21515, 24000, 26000, 65535>>}

\* what the non-volatile store can hold at a power-on: erased (all-ones),
\* zero, or the count an earlier run persisted: one short of the first
\* milestone, and one short of the ceiling of _load_interaction_count
ZeroStore == <<0, 0, 0, 0>>
ErasedStore == <<255, 255, 255, 255>>
InitialStores ==
    { ZeroStore, ErasedStore, <<49, 0, 0, 0>>, <<63, 66, 15, 0>> }

VARIABLES
    (* the environment: raw input lines *)
    pad,                 \* touch_inputs[i].value
    btn,                 \* start_pressed()
    bat_levels,          \* the raw streams the battery gives in this life
    (* control *)
    pc,                  \* where the program is
    ret,                 \* the handler in progress: "boot", "pad", "arm",
                         \* "wake"; "none" in the loop
    cur,                 \* the pad being handled (i of the scan)
    t_wait,              \* age of press_start / t0 of the wait in progress
                         \* (in play_start_button_sound: time waited so far)
    (* lifecycle *)
    sleeping, armed, last_activity, sleep_start,
    tick_life,           \* the lifecycle state at the last tick boundary
                         \* (the top of the main loop) or at the entry of
                         \* power_off; "ColdBoot" in the boot sequence
    (* debounce *)
    touch_high_since, touch_triggered,
    (* interaction counter, easter egg *)
    interaction_count, interaction_pending, nvm, last_pads,
    (* outputs *)
    amp_en, audio_playing, backlight_on,
    (* display caches, animation, chatter *)
    last_lcd, last_eye_state, loaded_expr, loaded_mouth,
    screen,              \* what the last clear-and-repaint put on the glass
    stale,               \* the last step had lcd_show or lcd_show_eyes return
                         \* with the glass differing from what it was asked
    eye_idx, eye_t, chatter_idx, chatter_t,
    (* battery *)
    bat_pct_cache, bat_last_read, bat_flash_on, bat_flash_t,
    (* history *)
    ev,                  \* what the last program step did
    lowRead,             \* pad i was read low since it last fired
    watch,               \* the one physical press under observation
    sampled,             \* the raw stream of the last battery sampling
    fired,               \* the fires since boot, each with whether it was
                         \* the easter egg (kept where the window is
                         \* specified alone; where the fire handling is
                         \* taken with five pads, the last fire only)
    (* the display's I2C bus, where _i2c_write is specified alone *)
    bus

envVars == <<pad, btn, bat_levels>>
ctlVars == <<pc, ret, cur, t_wait>>
lifeVars == <<sleeping, armed, last_activity, sleep_start, tick_life>>
touchVars == <<touch_high_since, touch_triggered>>
countVars == <<interaction_count, interaction_pending, nvm, last_pads>>
outVars == <<amp_en, audio_playing, backlight_on>>
dispVars ==
    <<last_lcd, last_eye_state, loaded_expr, loaded_mouth, screen, stale>>
animVars == <<eye_idx, eye_t, chatter_idx, chatter_t>>
batVars == <<bat_pct_cache, bat_last_read, bat_flash_on, bat_flash_t>>
histVars == <<ev, lowRead, watch, sampled, fired>>
vars == <<envVars, ctlVars, lifeVars, touchVars, countVars, outVars,
          dispVars, animVars, batVars, histVars, bus>>

(* ------------------------------ helpers --------------------------------- *)
Min(a, b) == IF a < b THEN a ELSE b
Max(a, b) == IF a > b THEN a ELSE b

\* the age a after d more units, capped at c
Adv(a, d, c) == Min(a + d, c)

WaitCap == Max(HoldTicks, ReleaseTicks + 1) + 1
EyeCap == Max(EYE_SEQUENCE[1].dur, EYE_SEQUENCE[2].dur)
FlashTicks == PauseTicks

\* None, for a cached name, a cached line (a fitted line is never
\* empty) and a cached face
NoLine == "<None>"
NoText == <<>>
NoFace == <<NoLine, NoLine, NoLine, NoText, NoText>>

\* the bus between two calls of _i2c_write: the lock free, nothing on the
\* wire.  pc is the place in _i2c_write, lock who holds the lock ("self":
\* this program, "other": another user of the bus), byte the argument,
\* wire the bytes written so far, spins the failed try_lock calls of the
\* call in progress, raised whether writeto raised
BusIdle ==
    [pc |-> "idle", lock |-> "free", byte |-> 0, wire |-> <<>>,
     spins |-> 0, raised |-> FALSE]

\* lcd_clear and the repaint that follows it; drew counts the repaints of
\* the step in progress
Repaint(s, glass) == [s EXCEPT !.screen = glass, !.drew = @ + 1]

(***************************************************************************)
(* The program's memory as one record, so that a handler is the            *)
(* composition of the functions it calls, in the order it calls them.      *)
(***************************************************************************)
Mem ==
    [pc |-> pc, ret |-> ret, cur |-> cur, t_wait |-> t_wait,
     sleeping |-> sleeping, armed |-> armed,
     last_activity |-> last_activity, sleep_start |-> sleep_start,
     tick_life |-> tick_life,
     touch_high_since |-> touch_high_since,
     touch_triggered |-> touch_triggered,
     interaction_count |-> interaction_count,
     interaction_pending |-> interaction_pending,
     nvm |-> nvm, last_pads |-> last_pads,
     amp_en |-> amp_en, audio_playing |-> audio_playing,
     backlight_on |-> backlight_on,
     last_lcd |-> last_lcd, last_eye_state |-> last_eye_state,
     loaded_expr |-> loaded_expr, loaded_mouth |-> loaded_mouth,
     screen |-> screen, drew |-> 0, stale |-> FALSE,
     eye_idx |-> eye_idx, eye_t |-> eye_t,
     chatter_idx |-> chatter_idx, chatter_t |-> chatter_t,
     bat_pct_cache |-> bat_pct_cache, bat_last_read |-> bat_last_read,
     bat_flash_on |-> bat_flash_on, bat_flash_t |-> bat_flash_t,
     ev |-> ev, lowRead |-> lowRead, watch |-> watch,
     sampled |-> sampled, fired |-> fired]

Commit(s) ==
    /\ pc' = s.pc /\ ret' = s.ret /\ cur' = s.cur /\ t_wait' = s.t_wait
    /\ sleeping' = s.sleeping /\ armed' = s.armed
    /\ last_activity' = s.last_activity /\ sleep_start' = s.sleep_start
    /\ tick_life' = s.tick_life
    /\ touch_high_since' = s.touch_high_since
    /\ touch_triggered' = s.touch_triggered
    /\ interaction_count' = s.interaction_count
    /\ interaction_pending' = s.interaction_pending
    /\ nvm' = s.nvm /\ last_pads' = s.last_pads
    /\ amp_en' = s.amp_en /\ audio_playing' = s.audio_playing
    /\ backlight_on' = s.backlight_on
    /\ last_lcd' = s.last_lcd /\ last_eye_state' = s.last_eye_state
    /\ loaded_expr' = s.loaded_expr /\ loaded_mouth' = s.loaded_mouth
    /\ screen' = s.screen /\ stale' = s.stale
    /\ eye_idx' = s.eye_idx /\ eye_t' = s.eye_t
    /\ chatter_idx' = s.chatter_idx /\ chatter_t' = s.chatter_t
    /\ bat_pct_cache' = s.bat_pct_cache /\ bat_last_read' = s.bat_last_read
    /\ bat_flash_on' = s.bat_flash_on /\ bat_flash_t' = s.bat_flash_t
    /\ ev' = s.ev /\ lowRead' = s.lowRead /\ watch' = s.watch
    /\ sampled' = s.sampled /\ fired' = s.fired
    /\ UNCHANGED <<envVars, bus>>

(* time.sleep(d): every age grows by d.  sleep_start is kept modulo the     *)
(* pulse period, the only way it is read; it and t_wait are dead outside    *)
(* the states that read them and are kept at 0 there.                       *)
WatchLater(w, d) ==
    IF w.st = "on"
    THEN [w EXCEPT !.high = Adv(@, d, DebounceTicks + 2),
                   !.span = IF @ = NoTime THEN @ ELSE Adv(@, d, DebounceTicks)]
    ELSE w

Sleep(s, d) ==
    [s EXCEPT
        !.last_activity = Adv(@, d, SleepAfterTicks),
        !.sleep_start = IF s.sleeping THEN (@ + d) % PulseTicks ELSE 0,
        !.t_wait = IF s.pc \in {"hold", "release", "btn_release"}
                   THEN Adv(@, d, WaitCap) ELSE 0,
        !.touch_high_since =
            [i \in Pads |-> IF @[i] = NoTime THEN NoTime
                             ELSE Adv(@[i], d, DebounceTicks)],
        !.eye_t = Adv(@, d, EyeCap),
        !.chatter_t = Adv(@, d, ChatterTicks),
        !.bat_last_read = Adv(@, d, BatUpdateTicks),
        !.bat_flash_t = Adv(@, d, FlashTicks),
        !.watch = WatchLater(@, d)]

(* ---------------------- interaction counter (NVM) ----------------------- *)
\* int.to_bytes(4, "little")
ToBytes(n) ==
    <<n % 256, (n \div 256) % 256, (n \div 65536) % 256, (n \div 16777216) % 256>>

\* the ceiling test made inclusive
LoadCeilingInclusive(raw) ==
    IF raw[4] # 0 THEN 0
    ELSE LET val == raw[1] + 256 * raw[2] + 65536 * raw[3]
         IN  IF val >= NVM_CEILING THEN 0 ELSE val

\* int.from_bytes(raw, "little"), sanitized: a value above the ceiling is 0.
\* A non-zero top byte alone puts the value at 2^24 or more, above the
\* ceiling, and is decided first.
LoadInteractionCount(raw) ==
    IF raw[4] # 0 THEN 0
    ELSE LET val == raw[1] + 256 * raw[2] + 65536 * raw[3]
         IN  IF val > NVM_CEILING THEN 0 ELSE val

load_interaction_count(s) ==
    [s EXCEPT !.interaction_count = LoadInteractionCount(s.nvm)]

\* the flush leaving the pending count as it was
save_keeps_pending(s) == [s EXCEPT !.nvm = ToBytes(s.interaction_count)]

save_interaction_count(s) ==
    [s EXCEPT !.interaction_pending = 0,
              !.nvm = ToBytes(s.interaction_count)]

\* the flush threshold missed by one
increment_late(s) ==
    LET s1 == [s EXCEPT !.interaction_count = @ + 1,
                        !.interaction_pending = @ + 1]
    IN  IF s1.interaction_pending > FLUSH_EVERY
        THEN save_interaction_count(s1) ELSE s1

increment_interaction(s) ==
    LET s1 == [s EXCEPT !.interaction_count = @ + 1,
                        !.interaction_pending = @ + 1]
    IN  IF s1.interaction_pending >= FLUSH_EVERY
        THEN save_interaction_count(s1) ELSE s1

(* ------------------------------ display --------------------------------- *)
\* str(n) of a count, a percent, a minute
Digit(d) ==
    CASE d = 0 -> "0" [] d = 1 -> "1" [] d = 2 -> "2" [] d = 3 -> "3"
      [] d = 4 -> "4" [] d = 5 -> "5" [] d = 6 -> "6" [] d = 7 -> "7"
      [] d = 8 -> "8" [] d = 9 -> "9"

RECURSIVE Digits(_)
Digits(n) ==
    IF n < 10 THEN <<Digit(n)>>
    ELSE Digits(n \div 10) \o <<Digit(n % 10)>>

Spaces(k) == [i \in 1 .. k |-> " "]

\* s[:width]
Take(s, width) == SubSeq(s, 1, Min(width, Len(s)))

\* _fit_line(s, width, center): cut to the width, or padded to it
fit_line(s, width, center) ==
    IF Len(s) > width THEN Take(s, width)
    ELSE IF center
         THEN LET pad_total == width - Len(s)
                  left == pad_total \div 2
                  right == pad_total - left
              IN  Spaces(left) \o s \o Spaces(right)
         ELSE s \o Spaces(width - Len(s))

\* _lcd_line(left, right, width): left at the left, right at the right
lcd_line(left, right, width) ==
    IF right = <<>> THEN fit_line(left, width, FALSE)
    ELSE LET gap == width - Len(left) - Len(right)
         IN  IF gap < 1 THEN Take(left \o <<" ">> \o right, width)
             ELSE left \o Spaces(gap) \o right

\* f"{m}:{s:02d}" of m, s = divmod(max(0, int(countdown_s)), 60); the
\* countdown is in the model's time units
Countdown(n) ==
    LET c == Max(0, n)
    IN  Digits(c \div 60) \o <<":", Digit((c % 60) \div 10), Digit(c % 10)>>

\* f"Poked {_interaction_count} times!"
PokedTimes(n) == PokedWord \o Digits(n) \o TimesWord

\* _bat_str on the percent read_battery_pct returned: f"{pct}%"
bat_str(pct) == Digits(pct) \o <<"%">>

\* "!! Low Battery !!"
LowBatteryLine ==
    <<"!", "!", " ", "L", "o", "w", " ", "B", "a", "t", "t", "e", "r", "y",
      " ", "!", "!">>

\* what a clear-and-repaint puts on the glass: the two lines of lcd_show
\* (rows 1 and 2), the face of lcd_show_eyes, the sleeping face, or nothing
\* (lcd_clear); row3 is the bottom row, which the low-battery warning
\* overwrites
Glass(kind, face, lines) ==
    [kind |-> kind, face |-> face, lines |-> lines,
     row3 |-> IF kind = "eyes" THEN face[5]
              ELSE IF kind = "sleep" THEN fit_line(PressIO, LCD_COLS, TRUE)
              ELSE Spaces(LCD_COLS)]
Blank == Glass("blank", NoFace, <<NoText, NoText>>)

\* the return of lcd_show / lcd_show_eyes asked for glass
Returned(s, glass) == [s EXCEPT !.stale = @ \/ s.screen # glass]

\* lcd_set_cursor(3, 0); lcd_print(line): the bottom row alone
print_row3(s, line) == [s EXCEPT !.screen.row3 = line]

\* lcd_show without its change detection: every call repaints
lcd_show_always(s, line1, line2, center) ==
    LET l1 == fit_line(line1, LCD_COLS, center)
        l2 == fit_line(line2, LCD_COLS, center)
    IN  Repaint([s EXCEPT !.last_lcd = <<l1, l2>>],
                Glass("text", NoFace, <<l1, l2>>))

\* lcd_show: redraw only when the two fitted lines differ from the cache
lcd_show(s, line1, line2, center) ==
    LET l1 == fit_line(line1, LCD_COLS, center)
        l2 == fit_line(line2, LCD_COLS, center)
        glass == Glass("text", NoFace, <<l1, l2>>)
    IN  Returned(IF s.last_lcd = <<l1, l2>> THEN s
                 ELSE Repaint([s EXCEPT !.last_lcd = <<l1, l2>>], glass),
                 glass)

load_expression(s, left, right) ==
    LET r == IF right = "none" THEN left ELSE right
    IN  IF s.loaded_expr = <<left, r>> THEN s
        ELSE [s EXCEPT !.loaded_expr = <<left, r>>]

load_mouth(s, name) ==
    IF s.loaded_mouth = name THEN s ELSE [s EXCEPT !.loaded_mouth = name]

\* lcd_show_eyes(text, expr_name, bat_str, mouth): mouth "none" is the
\* default mouth of the left expression
lcd_show_eyes(s, text, expr, bat, mouth) ==
    LET m == IF mouth = "none" THEN MOUTH_FOR_EXPR[expr[1]] ELSE mouth
        bottom == IF bat # <<>> THEN lcd_line(text, bat, LCD_COLS)
                  ELSE fit_line(text, LCD_COLS, FALSE)
        state == <<expr[1], expr[2], m, bat, bottom>>
        glass == Glass("eyes", state, <<NoText, NoText>>)
    IN  Returned(IF state = s.last_eye_state THEN s
                 ELSE Repaint(
                          load_mouth(
                              load_expression(
                                  [s EXCEPT !.last_eye_state = state,
                                            !.last_lcd = <<NoText, NoText>>],
                                  expr[1], expr[2]),
                              m),
                          glass),
                 glass)

lcd_sleeping_face(s) ==
    Repaint(
        load_mouth(
            load_expression(
                [s EXCEPT !.last_eye_state = NoFace,
                          !.last_lcd = <<NoText, NoText>>],
                "blink", "none"),
            "neutral"),
        Glass("sleep", NoFace, <<NoText, NoText>>))

\* lcd_reset: every cache to None, then lcd_init (0.06 s) and lcd_clear
lcd_reset(s) ==
    Sleep([s EXCEPT !.last_lcd = <<NoText, NoText>>,
                    !.last_eye_state = NoFace,
                    !.loaded_expr = <<NoLine, NoLine>>,
                    !.loaded_mouth = NoLine,
                    !.screen = Blank], 1)

set_backlight(s, on) == [s EXCEPT !.backlight_on = on]

(* ----------------------------- animation -------------------------------- *)
reset_eye_anim(s) == [s EXCEPT !.eye_idx = 0, !.eye_t = 0]

\* len(EYE_SEQUENCE), within the bound
EyeLen == Min(EyeSteps, Len(EYE_SEQUENCE))

\* the cursor moved on by two steps when the step is over
EyeAdvanceTwo(s) ==
    IF s.eye_t >= EYE_SEQUENCE[s.eye_idx + 1].dur
    THEN [s EXCEPT !.eye_idx = (s.eye_idx + 2) % EyeLen,
                   !.eye_t = 0]
    ELSE s

\* advance by at most one step, then the expression of the current step
EyeAdvance(s) ==
    IF s.eye_t >= EYE_SEQUENCE[s.eye_idx + 1].dur
    THEN [s EXCEPT !.eye_idx = (s.eye_idx + 1) % EyeLen,
                   !.eye_t = 0]
    ELSE s

current_eye(s) ==
    LET s1 == EyeAdvance(s)
    IN  [s |-> s1, name |-> EYE_SEQUENCE[s1.eye_idx + 1].expr]

(* ------------------------------ chatter --------------------------------- *)
reset_chatter(s) == [s EXCEPT !.chatter_idx = -1, !.chatter_t = 0]

get_chatter_text(s, default) ==
    IF s.chatter_idx < 0
    THEN [s |-> IF s.chatter_t >= ChatterTicks
                THEN [s EXCEPT !.chatter_idx = 0, !.chatter_t = 0]
                ELSE s,
          text |-> default]
    ELSE LET s1 == IF s.chatter_t >= ChatterTicks
                   THEN [s EXCEPT !.chatter_idx = (@ + 1) % NumMsgs,
                                  !.chatter_t = 0]
                   ELSE s
         IN  [s |-> s1, text |-> CLIMATE_MSGS[s1.chatter_idx + 1]]

(* ------------------------------ battery --------------------------------- *)
\* read_battery_pct: the cached percent while it is fresh, else the percent
\* of a new sampling (sample)
\* the percent without the clamp to 0..100
BatteryPctUnclamped(sample) ==
    LET total == sample[1] + sample[2] + sample[3] + sample[4] + sample[5]
        n == 990 * total - 104856000
    IN  IF n >= 0 THEN n \div 327675 ELSE -((-n) \div 327675)

\* voltage = (total / 5 / 65535) * 3.3 * BAT_DIVIDER and
\* pct = int((voltage - BAT_EMPTY_V) / (BAT_FULL_V - BAT_EMPTY_V) * 100),
\* that is (990 * total - 104856000) / 327675 cut toward zero, in exact
\* arithmetic; then max(0, min(100, pct))
BatteryPct(sample) ==
    LET total == sample[1] + sample[2] + sample[3] + sample[4] + sample[5]
        n == 990 * total - 104856000
        pct == IF n >= 0 THEN n \div 327675 ELSE -((-n) \div 327675)
    IN  Max(0, Min(100, pct))

\* read_battery_pct(): the cache while it is fresh, else five samples
read_battery_pct(s, sample) ==
    IF s.bat_pct_cache >= 0 /\ s.bat_last_read < BatUpdateTicks
    THEN s
    ELSE [s EXCEPT !.bat_pct_cache = BatteryPct(sample),
                   !.bat_last_read = 0, !.sampled = sample]

\* the critical cutoff made exclusive
check_low_battery_strict(pct) ==
    IF pct < BAT_CRIT_PCT THEN "critical"
    ELSE IF pct <= BAT_LOW_PCT THEN "low"
    ELSE "none"

\* _check_low_battery, on the percent read_battery_pct returned
check_low_battery(pct) ==
    IF pct <= BAT_CRIT_PCT THEN "critical"
    ELSE IF pct <= BAT_LOW_PCT THEN "low"
    ELSE "none"

(* ---------------------------- idle screens ------------------------------ *)
\* lcd_idle_armed / lcd_idle_disarmed(countdown_s); countdown -1 is None
lcd_idle(s, default, countdown, sample) ==
    LET e == current_eye(s)
        s1 == read_battery_pct(e.s, sample)
    IN  IF countdown # -1 /\ countdown <= CountdownTicks
        THEN lcd_show_eyes(s1, default \o <<" ">> \o Countdown(countdown),
                           <<"sleepy", "none">>, bat_str(s1.bat_pct_cache),
                           "none")
        ELSE LET c == get_chatter_text(s1, default)
             IN  lcd_show_eyes(c.s, c.text, e.name,
                               bat_str(c.s.bat_pct_cache), "none")

lcd_idle_armed(s, countdown, sample) ==
    lcd_idle(s, TouchAPanel, countdown, sample)

lcd_idle_disarmed(s, countdown, sample) ==
    lcd_idle(s, PressIO, countdown, sample)

\* lcd_playing(label, expr): expr "none" takes the animation's expression
lcd_playing(s, label, expr) ==
    IF expr = <<"none", "none">>
    THEN LET e == current_eye(s)
         IN  lcd_show_eyes(e.s, label, e.name, <<>>, "open")
    ELSE lcd_show_eyes(s, label, expr, <<>>, "open")


(* ----------------------------- histories -------------------------------- *)
OffPcs == {"off", "off_wait", "halt"}
NoWatch(st) ==
    [st |-> st, p |-> NoPad, high |-> 0, fires |-> 0, fhigh |-> NoTime,
     clean |-> FALSE, armedAll |-> FALSE, span |-> NoTime]

IsArmed(s) == s.armed /\ ~s.sleeping /\ s.pc \notin OffPcs
IsPolling(s) == IsArmed(s) /\ s.pc = "loop"

\* after a program step: the press under observation stays "clean" while the
\* device is Armed and, until the press fires, at the top of its loop.  What
\* no property reads any more is forgotten: the observation of a press that
\* has fired ends once the press is not clean, its time high is kept past
\* the threshold only while the device has stayed Armed, and the time since
\* its first high read only until it fires.
Track(s) ==
    LET w == s.watch
        c == w.clean /\ IF w.fires = 0 THEN IsPolling(s) ELSE IsArmed(s)
        a == w.armedAll /\ IsArmed(s)
    IN  IF w.st = "on"
        THEN IF w.fires >= 1 /\ ~c /\ ~(s.ev = "fire" /\ s.cur = w.p)
             THEN [s EXCEPT !.watch = NoWatch("idle")]
             ELSE [s EXCEPT
                     !.watch.clean = c,
                     !.watch.armedAll = a,
                     !.watch.high = IF a THEN @ ELSE Min(@, DebounceTicks),
                     !.watch.span = IF c /\ w.fires = 0 THEN @ ELSE NoTime]
        ELSE IF w.st = "ended" THEN [s EXCEPT !.watch = NoWatch("idle")]
        ELSE s

\* the state of the lifecycle the flags stand for
Life(s) ==
    IF s.pc \in OffPcs THEN "PoweringOff"
    ELSE IF s.sleeping THEN "Sleeping"
    ELSE IF s.armed THEN "Armed" ELSE "Disarmed"

\* after a program step that ends at the top of the main loop or in
\* power_off, the lifecycle state there; inside a handler, the state the
\* handler was entered in
AtTick(s) ==
    IF s.pc = "loop" \/ s.pc \in OffPcs
    THEN [s EXCEPT !.tick_life = Life(s)] ELSE s

Step(s, what) == Commit(AtTick(Track([s EXCEPT !.ev = what])))

\* the program reads pad i
ReadPad(s, i) ==
    IF pad[i]
    THEN IF s.watch.st = "on" /\ s.watch.p = i /\ s.watch.span = NoTime
         THEN [s EXCEPT !.watch.span = 0] ELSE s
    ELSE [s EXCEPT !.lowRead[i] = TRUE]

\* pad i fires
NoteFire(s, i) ==
    LET s1 == [s EXCEPT !.lowRead[i] = FALSE]
    IN  IF s.watch.st = "on" /\ s.watch.p = i
        THEN [s1 EXCEPT !.watch.fires = Min(@ + 1, 2),
                        !.watch.fhigh = IF s.watch.fires = 0
                                        THEN s.watch.high ELSE @]
        ELSE s1

(* --------------------------- the pad scan ------------------------------- *)
\* the comparison made strict
DebounceStrict(age) == age > DebounceTicks

\* (now - touch_high_since[i]) >= TOUCH_DEBOUNCE_MS / 1000
DebouncePassed(age) == age >= DebounceTicks

\* the scan without the latch: a fire leaves touch_triggered clear
ScanPadNoLatch(s, i) ==
    LET current == pad[i]
        r == ReadPad(s, i)
    IN  IF current /\ ~r.touch_triggered[i]
        THEN IF r.touch_high_since[i] = NoTime
             THEN [s |-> [r EXCEPT !.touch_high_since[i] = 0], fired |-> FALSE]
             ELSE [s |-> r, fired |-> r.touch_high_since[i] >= DebounceTicks]
        ELSE IF ~current
        THEN [s |-> [r EXCEPT !.touch_high_since[i] = NoTime,
                              !.touch_triggered[i] = FALSE],
              fired |-> FALSE]
        ELSE [s |-> r, fired |-> FALSE]

\* one pass of the for loop over pad i: the memory after it, and whether
\* pad i fired (the loop breaks there)
ScanPad(s, i) ==
    LET current == pad[i]
        r == ReadPad(s, i)
    IN  IF current /\ ~r.touch_triggered[i]
        THEN IF r.touch_high_since[i] = NoTime
             THEN [s |-> [r EXCEPT !.touch_high_since[i] = 0], fired |-> FALSE]
             ELSE IF DebouncePassed(r.touch_high_since[i])
             THEN [s |-> [r EXCEPT !.touch_triggered[i] = TRUE], fired |-> TRUE]
             ELSE [s |-> r, fired |-> FALSE]
        ELSE IF ~current
        THEN [s |-> [r EXCEPT !.touch_high_since[i] = NoTime,
                              !.touch_triggered[i] = FALSE],
              fired |-> FALSE]
        ELSE [s |-> r, fired |-> FALSE]

\* the scan going on after a fire instead of breaking
RECURSIVE ScanAll(_, _)
ScanAll(s, i) ==
    IF i \notin Pads THEN [s |-> s, fired |-> NoPad]
    ELSE LET one == ScanPad(s, i)
             rest == ScanAll(one.s, i + 1)
         IN  [s |-> rest.s, fired |-> IF one.fired THEN i ELSE rest.fired]

\* the for loop over the pads, from pad i on: it breaks at the first fire
RECURSIVE ScanFrom(_, _)
ScanFrom(s, i) ==
    IF i \notin Pads THEN [s |-> s, fired |-> NoPad]
    ELSE LET one == ScanPad(s, i)
         IN  IF one.fired THEN [s |-> one.s, fired |-> i]
             ELSE ScanFrom(one.s, i + 1)

\* the disarmed branch scanning as the armed branch does
CleanAsScan(s, i) == ScanFrom(s, i).s

\* the disarmed branch: clear the debounce state of every released pad
RECURSIVE CleanFrom(_, _)
CleanFrom(s, i) ==
    IF i \notin Pads THEN s
    ELSE LET r == ReadPad(s, i)
         IN  CleanFrom(IF ~pad[i]
                       THEN [r EXCEPT !.touch_high_since[i] = NoTime,
                                      !.touch_triggered[i] = FALSE]
                       ELSE r,
                       i + 1)

(* ----------------------------- easter egg ------------------------------- *)
\* the window never cut
LastKAll(seq, k) == seq

\* _last_pads[-len(EASTER_EGG_SEQ):] when the window is longer than that
LastK(seq, k) ==
    IF Len(seq) > k THEN SubSeq(seq, Len(seq) - k + 1, Len(seq)) ELSE seq

\* _check_easter_egg(pad_idx): the window after it, and whether it matched
check_easter_egg(s, i) ==
    LET w == LastK(Append(s.last_pads, i), Len(EASTER_EGG_SEQ))
    IN  IF w = EASTER_EGG_SEQ
        THEN [s |-> Sleep(lcd_show_eyes([s EXCEPT !.last_pads = <<>>],
                                        EASTER_EGG_MSG,
                                        <<"happy", "none">>, <<>>, "none"),
                          PauseTicks),
              egg |-> TRUE]
        ELSE [s |-> [s EXCEPT !.last_pads = w], egg |-> FALSE]

\* the milestone check doing nothing
check_milestone_off(s) == s

\* _check_milestone: the celebration and its 3 s, at a milestone count
check_milestone(s) ==
    IF s.interaction_count \in MILESTONES
    THEN Sleep(lcd_show_eyes(s, PokedTimes(s.interaction_count),
                             <<"happy", "none">>, <<>>, "none"),
               PauseTicks)
    ELSE s

(* ------------------------------ playback -------------------------------- *)
\* play_wav up to the opening of the file: the caller is recorded in ret
\* (allow_start_interrupt is ret = "pad")
play_wav(s, who, label, expr) ==
    LET s1 == [s EXCEPT !.last_activity = 0]
        s2 == IF s1.audio_playing
              THEN Sleep([s1 EXCEPT !.audio_playing = FALSE], 1) ELSE s1
        s3 == lcd_playing(s2, label, expr)
    IN  [Sleep([s3 EXCEPT !.amp_en = TRUE], PauseTicks)
            EXCEPT !.pc = "open", !.ret = who, !.t_wait = 0]

PlayLabel(s) ==
    IF s.ret = "pad" THEN CLIMATE_MSGS[1] ELSE StartButtonLabel
PlayExpr(s) ==
    IF s.ret = "pad" THEN TOUCH_EXPR[s.cur + 1] ELSE <<"none", "none">>

\* the end of play_wav leaving the amplifier enabled
play_end_amp_on(s) ==
    [Sleep([s EXCEPT !.audio_playing = FALSE], PauseTicks)
        EXCEPT !.pc = "after_play"]

\* the end of play_wav after the polling loop
play_end(s) ==
    [Sleep([s EXCEPT !.audio_playing = FALSE], PauseTicks)
        EXCEPT !.amp_en = FALSE, !.pc = "after_play"]

\* play_start_button_sound after its release wait
start_button_sound(s) ==
    play_wav(Sleep(s, 1), s.ret, StartButtonLabel, <<"none", "none">>)


(* ------------------------- sleep, wake, power --------------------------- *)
\* go_to_sleep without its flush
go_to_sleep_no_save(s) ==
    LET s1 == [s EXCEPT !.armed = FALSE, !.amp_en = FALSE]
        s2 == Sleep(lcd_sleeping_face(s1), PauseTicks)
    IN  [s2 EXCEPT !.sleeping = TRUE, !.sleep_start = 0,
                   !.last_activity = 0]

\* go_to_sleep leaving the device armed
go_to_sleep_armed(s) ==
    LET s1 == save_interaction_count([s EXCEPT !.amp_en = FALSE])
        s2 == Sleep(lcd_sleeping_face(s1), PauseTicks)
    IN  [s2 EXCEPT !.sleeping = TRUE, !.sleep_start = 0,
                   !.last_activity = 0]

\* go_to_sleep never setting the sleeping flag
go_to_sleep_awake(s) ==
    LET s1 == save_interaction_count([s EXCEPT !.armed = FALSE,
                                               !.amp_en = FALSE])
        s2 == Sleep(lcd_sleeping_face(s1), PauseTicks)
    IN  [s2 EXCEPT !.sleep_start = 0, !.last_activity = 0]

\* go_to_sleep: disarm, amplifier off, flush, sleeping face, 2 s, asleep
go_to_sleep(s) ==
    LET s1 == save_interaction_count([s EXCEPT !.armed = FALSE,
                                               !.amp_en = FALSE])
        s2 == Sleep(lcd_sleeping_face(s1), PauseTicks)
    IN  [s2 EXCEPT !.sleeping = TRUE, !.sleep_start = 0,
                   !.last_activity = 0]

lcd_boot(s) == Sleep(lcd_show(s, Booting, PleaseWait, TRUE), PauseTicks)

\* _play_boot_sound up to its polling loop; without Boot.wav it returns
play_boot_sound(s, bootwav) ==
    IF bootwav
    THEN [Sleep([s EXCEPT !.amp_en = TRUE], PauseTicks)
            EXCEPT !.audio_playing = TRUE]
    ELSE s

\* wake_up without the backlight and the display reset
wake_up_no_reset(s, bootwav) ==
    play_boot_sound(lcd_boot(reset_chatter([s EXCEPT !.sleeping = FALSE,
                                                     !.sleep_start = 0,
                                                     !.last_activity = 0])),
                    bootwav)

\* wake_up up to _play_boot_sound
wake_up(s, bootwav) ==
    LET s1 == lcd_reset(set_backlight(s, TRUE))
        s2 == reset_chatter([s1 EXCEPT !.sleeping = FALSE,
                                       !.sleep_start = 0,
                                       !.last_activity = 0])
    IN  play_boot_sound(lcd_boot(s2), bootwav)

\* arming without _reset_eye_anim
arm_no_reset(s, sample) ==
    lcd_idle_armed([s EXCEPT !.armed = TRUE], -1, sample)

\* the end of wake_up, and of the short press when not sleeping
arm(s, sample) ==
    lcd_idle_armed(reset_eye_anim([s EXCEPT !.armed = TRUE]), -1, sample)

\* power_off without its flush
power_off_no_save(s) == [s EXCEPT !.pc = "off", !.t_wait = 0]

\* power_off: the flush, then the shutdown, then the wait for release
power_off(s) == [save_interaction_count(s) EXCEPT !.pc = "off", !.t_wait = 0]

power_off_shutdown(s) ==
    LET s1 == [s EXCEPT !.amp_en = FALSE, !.audio_playing = FALSE]
        s2 == Sleep(lcd_show(s1, PoweringOffLine, <<>>, TRUE), PauseTicks)
    IN  set_backlight([s2 EXCEPT !.screen = Blank], FALSE)

(* ------------------------------- boot ----------------------------------- *)
\* the memory when the process starts, before the first statement of the
\* boot sequence; a timestamp initialised to 0.0 is as old as can be
StartMem(store) ==
    [pc |-> "boot", ret |-> "none", cur |-> 0, t_wait |-> 0,
     sleeping |-> FALSE, armed |-> FALSE,
     last_activity |-> 0, sleep_start |-> 0, tick_life |-> "ColdBoot",
     touch_high_since |-> [i \in Pads |-> NoTime],
     touch_triggered |-> [i \in Pads |-> FALSE],
     interaction_count |-> 0, interaction_pending |-> 0,
     nvm |-> store, last_pads |-> <<>>,
     amp_en |-> FALSE, audio_playing |-> FALSE, backlight_on |-> TRUE,
     last_lcd |-> <<NoText, NoText>>, last_eye_state |-> NoFace,
     loaded_expr |-> <<NoLine, NoLine>>, loaded_mouth |-> NoLine,
     screen |-> Blank, drew |-> 0, stale |-> FALSE,
     eye_idx |-> 0, eye_t |-> EyeCap,
     chatter_idx |-> -1, chatter_t |-> ChatterTicks,
     bat_pct_cache |-> -1, bat_last_read |-> BatUpdateTicks,
     bat_flash_on |-> FALSE, bat_flash_t |-> FlashTicks,
     ev |-> "start", lowRead |-> [i \in Pads |-> TRUE],
     watch |-> NoWatch("off"), sampled |-> <<>>, fired |-> <<>>]

\* the boot sequence up to _play_boot_sound
boot_sequence(s, bootwav) ==
    LET s1 == lcd_boot(load_interaction_count(
                  lcd_reset(set_backlight(s, TRUE))))
        s2 == IF s1.interaction_count > 0
              THEN Sleep(lcd_show(s1, PokedTimes(s1.interaction_count), <<>>,
                                  TRUE),
                         PauseTicks)
              ELSE s1
    IN  play_boot_sound(s2, bootwav)

\* the boot sequence after _play_boot_sound
boot_finish(s, sample) ==
    [lcd_idle_disarmed(reset_chatter(reset_eye_anim(s)), -1, sample)
        EXCEPT !.pc = "loop", !.ret = "none"]

\* after _play_boot_sound's loop: audio.stop(), settle, amplifier off
boot_sound_end(s) ==
    [Sleep([s EXCEPT !.audio_playing = FALSE], PauseTicks)
        EXCEPT !.amp_en = FALSE]

(* --------------------------- main loop: top ----------------------------- *)
\* the warning flashing while asleep too
LowBatteryFlashAsleep(s) ==
    IF check_low_battery(s.bat_pct_cache) = "low"
       /\ s.bat_flash_t >= FlashTicks
    THEN [s EXCEPT !.bat_flash_on = ~@, !.bat_flash_t = 0]
    ELSE s

\* the low-battery warning of a tick that is not critical
LowBatteryFlash(s) ==
    IF check_low_battery(s.bat_pct_cache) = "low" /\ ~s.sleeping
       /\ s.bat_flash_t >= FlashTicks
    THEN print_row3([s EXCEPT !.bat_flash_on = ~@, !.bat_flash_t = 0],
                    IF ~s.bat_flash_on
                    THEN fit_line(LowBatteryLine, LCD_COLS, TRUE)
                    ELSE fit_line(<<>>, LCD_COLS, FALSE))
    ELSE s

\* the tick up to the button test, for a battery that is not critical
TickTop(sample) == LowBatteryFlash(read_battery_pct(Mem, sample))

Critical(sample) ==
    check_low_battery(read_battery_pct(Mem, sample).bat_pct_cache) = "critical"

\* the timeout one unit late
RemainingLate(s) == SleepAfterTicks + 1 - s.last_activity

\* SLEEP_AFTER_S - (now - last_activity)
Remaining(s) == SleepAfterTicks - s.last_activity


(* ============================== actions ================================= *)
(* ---- the environment ---- *)
\* the fires still to come are bounded: a pad is touched only while the
\* count, with the pads already high and not yet fired, is below MaxCount
CountNow ==
    IF pc = "boot" THEN LoadInteractionCount(nvm) ELSE interaction_count
Bases == { LoadInteractionCount(st) : st \in InitialStores }
\* the increments since the count was loaded from an initial store
UsedOf(n) ==
    n - CHOOSE b \in Bases : b <= n /\ \A c \in Bases : c <= n => c <= b
Used == UsedOf(CountNow)

MayTouch ==
    Used + Cardinality({j \in Pads : pad[j] /\ ~touch_triggered[j]}) < MaxCount

Idle(w) == IF w.st = "ended" THEN NoWatch("idle") ELSE w

PadRise(i) ==
    /\ ~pad[i]
    /\ MayTouch
    /\ pad' = [pad EXCEPT ![i] = TRUE]
    /\ \E observe \in IF Idle(watch).st = "idle" THEN BOOLEAN ELSE {FALSE} :
         watch' = IF observe
                  THEN [st |-> "on", p |-> i, high |-> 0, fires |-> 0,
                        fhigh |-> NoTime, clean |-> IsPolling(Mem),
                        armedAll |-> IsArmed(Mem), span |-> NoTime]
                  ELSE Idle(watch)
    /\ UNCHANGED <<btn, bat_levels, ctlVars, lifeVars, touchVars, countVars, outVars,
                   dispVars, animVars, batVars, ev, lowRead, sampled,
                   fired, bus>>

PadFall(i) ==
    /\ pad[i]
    /\ pad' = [pad EXCEPT ![i] = FALSE]
    /\ watch' = IF watch.st = "on" /\ watch.p = i
                THEN [watch EXCEPT !.st = "ended"] ELSE Idle(watch)
    /\ UNCHANGED <<btn, bat_levels, ctlVars, lifeVars, touchVars, countVars, outVars,
                   dispVars, animVars, batVars, ev, lowRead, sampled,
                   fired, bus>>

ButtonChange ==
    /\ btn' = ~btn
    /\ watch' = Idle(watch)
    /\ UNCHANGED <<pad, bat_levels, ctlVars, lifeVars, touchVars, countVars, outVars,
                   dispVars, animVars, batVars, ev, lowRead, sampled,
                   fired, bus>>

(* ---- boot ---- *)
Boot ==
    /\ pc = "boot"
    /\ \E bootwav \in BOOLEAN, sample \in bat_levels :
         LET s == boot_sequence(Mem, bootwav)
         IN  IF bootwav
             THEN Step([s EXCEPT !.pc = "bootsnd", !.ret = "boot"], "boot")
             ELSE Step(boot_finish(s, sample), "booted")

\* the deep-power alarm: the button reads pressed, the process restarts with
\* its memory lost (the pads held across the restart can fire again, so the
\* button wakes the device only while the count leaves room for them)
ColdBoot ==
    /\ pc = "halt"
    /\ btn
    /\ Used + Cardinality({j \in Pads : pad[j]}) <= MaxCount
    /\ Step([StartMem(nvm) EXCEPT !.watch = watch], "start")

BootSoundWait ==
    /\ pc = "bootsnd"
    /\ Step(Sleep(Mem, 1), "wait")

BootSoundEnd ==
    /\ pc = "bootsnd"
    /\ \E sample \in bat_levels :
         LET s == boot_sound_end(Mem)
         IN  IF ret = "boot"
             THEN Step(boot_finish(s, sample), "booted")
             ELSE Step([s EXCEPT !.pc = "btn_release"], "wait")

(* ---- one pass of the main loop ---- *)
TickCritical ==
    /\ pc = "loop"
    /\ \E sample \in bat_levels :
         /\ Critical(sample)
         /\ Step(power_off(save_interaction_count(
                     read_battery_pct(Mem, sample))), "critical")

TickButton ==
    /\ pc = "loop"
    /\ btn
    /\ \E sample \in bat_levels :
         /\ ~Critical(sample)
         /\ Step([TickTop(sample) EXCEPT !.pc = "hold", !.t_wait = 0],
                 "button")

TickSleepEntry ==
    /\ pc = "loop"
    /\ ~btn
    /\ \E sample \in bat_levels :
         /\ ~Critical(sample)
         /\ LET s == TickTop(sample)
            IN  /\ ~s.sleeping /\ Remaining(s) <= 0
                /\ Step(go_to_sleep(s),
                        IF armed THEN "sleep_armed" ELSE "sleep_disarmed")

TickSleeping ==
    /\ pc = "loop"
    /\ ~btn
    /\ \E sample \in bat_levels :
         /\ ~Critical(sample)
         /\ LET s == TickTop(sample)
            IN  /\ s.sleeping
                /\ Step(Sleep(set_backlight(s, s.sleep_start * 10
                                                   < PulseTicks * 4), 1),
                        "pulse")

\* the armed branch when no pad fires
TickArmedIdle ==
    /\ pc = "loop"
    /\ ~btn
    /\ \E sample \in bat_levels :
         /\ ~Critical(sample)
         /\ LET s == TickTop(sample)
            IN  /\ ~s.sleeping /\ Remaining(s) > 0
                /\ s.armed /\ ~s.audio_playing
                /\ LET scan == ScanFrom(s, 0)
                   IN  /\ scan.fired = NoPad
                       /\ Step(Sleep(lcd_idle_armed(scan.s,
                                        Max(0, Remaining(scan.s)), sample),
                                     1), "idle")

\* what follows play_wav in its caller: for a pad the milestone check and
\* the wait for release, for the button the arming and the 0.2 s pause
release_done(s, sample) ==
    LET s1 == Sleep(s, PauseTicks)
    IN  [Sleep(lcd_idle_armed(s1, Max(0, Remaining(s1)), sample), 1)
            EXCEPT !.pc = "loop", !.ret = "none", !.cur = 0, !.t_wait = 0]

after_play(s, sample) ==
    IF s.ret = "pad"
    THEN LET s1 == check_milestone(s)
         IN  IF RELEASE_REQUIRED
             THEN [s1 EXCEPT !.pc = "release", !.t_wait = 0]
             ELSE release_done(s1, sample)
    ELSE [Sleep(arm(s, sample), PauseTicks)
            EXCEPT !.pc = "loop", !.ret = "none"]

\* the fire handling playing the pad's clip whether or not the easter egg
\* matched
FireHandlerPlays(s, i, sample) ==
    LET s1 == increment_interaction(
                  reset_chatter([s EXCEPT !.last_activity = 0]))
        e == check_easter_egg(s1, i)
        s2 == [e.s EXCEPT !.cur = i]
    IN  play_wav(s2, "pad", CLIMATE_MSGS[1], TOUCH_EXPR[i + 1])

\* the armed branch when pad i fires, up to play_wav's opening of the file
\* (or, for the easter egg, to the wait for release)
FireHandler(s, i, sample) ==
    LET s1 == increment_interaction(
                  reset_chatter([s EXCEPT !.last_activity = 0]))
        e == check_easter_egg(s1, i)
        s2 == [e.s EXCEPT !.cur = i]
    IN  IF e.egg
        THEN after_play([s2 EXCEPT !.ret = "pad"], sample)
        ELSE play_wav(s2, "pad", CLIMATE_MSGS[1], TOUCH_EXPR[i + 1])

TickFire ==
    /\ pc = "loop"
    /\ ~btn
    /\ \E sample \in bat_levels :
         /\ ~Critical(sample)
         /\ LET s == TickTop(sample)
            IN  /\ ~s.sleeping /\ Remaining(s) > 0
                /\ s.armed /\ ~s.audio_playing
                /\ LET scan == ScanFrom(s, 0)
                   IN  /\ scan.fired # NoPad
                       /\ Step(FireHandler(NoteFire(scan.s, scan.fired),
                                           scan.fired, sample), "fire")

TickDisarmed ==
    /\ pc = "loop"
    /\ ~btn
    /\ \E sample \in bat_levels :
         /\ ~Critical(sample)
         /\ LET s == TickTop(sample)
            IN  /\ ~s.sleeping /\ Remaining(s) > 0
                /\ ~s.armed
                /\ Step(Sleep(lcd_idle_disarmed(CleanFrom(s, 0),
                                  Max(0, Remaining(s)), sample), 1),
                        "idle")

(* ---- the button, held ---- *)
\* the comparison made strict
HoldStrict(age) == age > HoldTicks

\* (time.monotonic() - press_start) >= POWER_OFF_HOLD_S
HoldElapsed(age) == age >= HoldTicks

HoldWait ==
    /\ pc = "hold"
    /\ btn
    /\ ~HoldElapsed(t_wait)
    /\ Step(Sleep(Mem, 1), "wait")

HoldLong ==
    /\ pc = "hold"
    /\ btn
    /\ HoldElapsed(t_wait)
    /\ Step(power_off(Mem), "long")

short_press(s, bootwav) ==
    LET s1 == reset_chatter([s EXCEPT !.last_activity = 0, !.t_wait = 0])
    IN  IF s1.sleeping
        THEN [wake_up(s1, bootwav) EXCEPT
                 !.pc = IF bootwav THEN "bootsnd" ELSE "btn_release",
                 !.ret = "wake"]
        ELSE [s1 EXCEPT !.pc = "btn_release", !.ret = "arm"]

ShortPress ==
    /\ pc = "hold"
    /\ ~btn
    /\ \E bootwav \in BOOLEAN :
         Step(short_press(Mem, bootwav),
              IF sleeping THEN "short_wake" ELSE "short_arm")

(* ---- play_start_button_sound ---- *)
BtnReleaseWait ==
    /\ pc = "btn_release"
    /\ btn
    /\ Step(Sleep(Mem, 1), "wait")

StartSound ==
    /\ pc = "btn_release"
    /\ ~btn
    /\ Step(start_button_sound(Mem), "start_sound")

(* ---- play_wav ---- *)
\* what the end of a playback is the end of
Played == IF ret = "pad" THEN "played"
          ELSE IF ret = "wake" THEN "woke" ELSE "armed"

PlayOpenOk ==
    /\ pc = "open"
    /\ Step([Mem EXCEPT !.audio_playing = TRUE, !.pc = "playing"], "play")

\* path.split("/")[-1] of the clip play_wav was called with
WavName(s) == IF s.ret = "pad" THEN TOUCH_WAV[s.cur + 1] ELSE StartButtonWav

lcd_missing(s, name) == lcd_show(s, MissingFile, name, FALSE)

\* the handler leaving the amplifier on for the dwell
play_missing_amp_on(s) ==
    [lcd_missing(s, WavName(s)) EXCEPT !.pc = "missing"]

\* play_wav's except OSError up to its dwell: amplifier off, then the
\* "missing file" screen
play_missing(s) ==
    [lcd_missing([s EXCEPT !.amp_en = FALSE], WavName(s))
        EXCEPT !.pc = "missing"]

PlayOpenMissing ==
    /\ pc = "open"
    /\ Step(play_missing(Mem), "missing")

MissingDwell ==
    /\ pc = "missing"
    /\ \E sample \in bat_levels :
         Step(after_play(Sleep(Mem, PauseTicks), sample), Played)

\* every playback taken as one the button stops
CancellableAlways(who) == TRUE

\* allow_start_interrupt: True for a pad's clip, False for the
\* arm-confirmation sound
Cancellable(who) == who = "pad"

PlayContinue ==
    /\ pc = "playing"
    /\ ~(Cancellable(ret) /\ btn)
    /\ Step(Sleep(lcd_playing(Mem, PlayLabel(Mem), PlayExpr(Mem)), 1),
            "playing")

\* audio.playing has become false: the clip is over
PlayFinish ==
    /\ pc = "playing"
    /\ \E sample \in bat_levels :
         Step(after_play(play_end(Mem), sample), Played)

PlayCancel ==
    /\ pc = "playing"
    /\ Cancellable(ret)
    /\ btn
    /\ \E sample \in bat_levels :
         Step(after_play(play_end(Mem), sample), "cancelled")

(* ---- the wait for release and the cooldown ---- *)
\* the wait for release without its timeout
ReleaseNoTimeout(age) == FALSE

\* time.monotonic() - t0 > 5.0
ReleaseTimedOut(age) == age > ReleaseTicks

ReleaseWait ==
    /\ pc = "release"
    /\ pad[cur]
    /\ ~ReleaseTimedOut(t_wait)
    /\ Step(Sleep(Mem, 1), "wait")

ReleaseDone ==
    /\ pc = "release"
    /\ ~pad[cur] \/ ReleaseTimedOut(t_wait)
    /\ \E sample \in bat_levels :
         Step(release_done(Mem, sample), "cooldown")

(* ---- power_off after the flush ---- *)
PowerOffShutdown ==
    /\ pc = "off"
    /\ Step([power_off_shutdown(Mem) EXCEPT !.pc = "off_wait"], "shutdown")

PowerOffWait ==
    /\ pc = "off_wait"
    /\ btn
    /\ Step(Sleep(Mem, 1), "wait")

PowerOffHalt ==
    /\ pc = "off_wait"
    /\ ~btn
    /\ Step([Sleep(Mem, PauseTicks) EXCEPT !.pc = "halt"], "halt")

(* ------------------------------ the system ------------------------------ *)
InitWith(st, levels, stores) ==
    /\ pad = [i \in Pads |-> FALSE]
    /\ btn = FALSE
    /\ bus = BusIdle
    /\ bat_levels = levels
    /\ \E store \in stores :
         LET s == [StartMem(store) EXCEPT !.watch = NoWatch(st)]
         IN  /\ pc = s.pc /\ ret = s.ret /\ cur = s.cur /\ t_wait = s.t_wait
             /\ sleeping = s.sleeping /\ armed = s.armed
             /\ last_activity = s.last_activity
             /\ sleep_start = s.sleep_start /\ tick_life = s.tick_life
             /\ touch_high_since = s.touch_high_since
             /\ touch_triggered = s.touch_triggered
             /\ interaction_count = s.interaction_count
             /\ interaction_pending = s.interaction_pending
             /\ nvm = s.nvm /\ last_pads = s.last_pads
             /\ amp_en = s.amp_en /\ audio_playing = s.audio_playing
             /\ backlight_on = s.backlight_on
             /\ last_lcd = s.last_lcd /\ last_eye_state = s.last_eye_state
             /\ loaded_expr = s.loaded_expr /\ loaded_mouth = s.loaded_mouth
             /\ screen = s.screen /\ stale = s.stale
             /\ eye_idx = s.eye_idx /\ eye_t = s.eye_t
             /\ chatter_idx = s.chatter_idx /\ chatter_t = s.chatter_t
             /\ bat_pct_cache = s.bat_pct_cache
             /\ bat_last_read = s.bat_last_read
             /\ bat_flash_on = s.bat_flash_on /\ bat_flash_t = s.bat_flash_t
             /\ ev = s.ev /\ lowRead = s.lowRead /\ watch = s.watch
             /\ sampled = s.sampled /\ fired = s.fired

\* a battery that is normal until it is critical
Init == InitWith("off", {RawCritical, RawFull}, InitialStores)
\* the same system with one physical press at a time under observation
InitWatched == InitWith("idle", {RawCritical, RawFull}, {ZeroStore})

Env ==
    \/ \E i \in Pads : PadRise(i)
    \/ \E i \in Pads : PadFall(i)
    \/ ButtonChange

Prog ==
    \/ Boot \/ ColdBoot \/ BootSoundWait \/ BootSoundEnd
    \/ TickCritical \/ TickButton \/ TickSleepEntry \/ TickSleeping
    \/ TickArmedIdle \/ TickFire \/ TickDisarmed
    \/ HoldWait \/ HoldLong \/ ShortPress
    \/ BtnReleaseWait \/ StartSound
    \/ PlayOpenOk \/ PlayOpenMissing \/ MissingDwell
    \/ PlayContinue \/ PlayFinish \/ PlayCancel
    \/ ReleaseWait \/ ReleaseDone
    \/ PowerOffShutdown \/ PowerOffWait \/ PowerOffHalt

Next == Env \/ Prog

\* a battery that is low until it is critical
InitLow == InitWith("off", {RawCritical, RawLow}, {ZeroStore})

Spec == Init /\ [][Next]_vars
SpecWatched == InitWatched /\ [][Next]_vars
SpecLow == InitLow /\ [][Next]_vars

(* ---- the interaction counter taken alone: its three functions, applied  *)
(* ---- in the orders the program can apply them                           *)
\* the boot sequence loads the count; a restart follows a power_off, whose
\* flush has just run
CounterLoad ==
    /\ ev \in {"start", "flush"}
    /\ Step(load_interaction_count(
                [Mem EXCEPT !.interaction_count = 0,
                            !.interaction_pending = 0]), "load")

CounterIncrement ==
    /\ ev # "start"
    /\ UsedOf(interaction_count) < CounterSteps
    /\ Step(increment_interaction(Mem), "inc")

\* go_to_sleep, power_off and the critical battery flush at any count
CounterFlush ==
    /\ ev \in {"load", "inc"}
    /\ Step(save_interaction_count(Mem), "flush")

NextCounter == CounterLoad \/ CounterIncrement \/ CounterFlush

SpecCounter == Init /\ [][NextCounter]_vars


(* ---- the easter-egg window taken alone: _check_easter_egg applied to    *)
(* ---- the pads of successive fires                                       *)
EggPads == 0 .. NumTouchPads - 1

EggFire(i) ==
    /\ Len(fired) < EggLen
    /\ LET e == check_easter_egg(Mem, i)
       IN  Step([e.s EXCEPT !.fired = Append(@, [p |-> i, egg |-> e.egg])],
                IF e.egg THEN "egg" ELSE "no_egg")

\* the process restarts: _last_pads = []
EggBoot ==
    /\ fired # <<>>
    /\ Step(StartMem(nvm), "start")

NextEgg == (\E i \in EggPads : EggFire(i)) \/ EggBoot

SpecEgg == Init /\ [][NextEgg]_vars


(* ---- the fire handling taken with all five pads: the scan's fire is an  *)
(* ---- input, and so is the line the wait for release reads               *)
FirstMilestone == CHOOSE m \in MILESTONES : \A n \in MILESTONES : m <= n

\* the count an earlier run persisted: EggFires short of the first
\* milestone, or one more
EggStores ==
    {ToBytes(FirstMilestone - EggFires), ToBytes(FirstMilestone - EggFires - 1)}

InitEggFire == InitWith("off", {RawFull}, EggStores)

\* the armed branch of a pass of the loop in which the scan fires pad i
TickFireAny(i) ==
    /\ pc = "loop"
    /\ ~btn
    /\ interaction_count < FirstMilestone
    /\ \E sample \in bat_levels :
         /\ ~Critical(sample)
         /\ LET s == TickTop(sample)
                e == check_easter_egg(
                         increment_interaction(
                             reset_chatter([s EXCEPT !.last_activity = 0])),
                         i)
            IN  /\ ~s.sleeping /\ Remaining(s) > 0
                /\ s.armed /\ ~s.audio_playing
                /\ Step([FireHandler(s, i, sample) EXCEPT
                            !.fired = <<[p |-> i, egg |-> e.egg]>>],
                        "fire")

\* touch_inputs[i].value read high in the wait for release
LineReleaseWait ==
    /\ pc = "release"
    /\ ~ReleaseTimedOut(t_wait)
    /\ Step(Sleep(Mem, 1), "wait")

\* touch_inputs[i].value read low, or the timeout: the cooldown follows
LineReleaseDone ==
    /\ pc = "release"
    /\ \E sample \in bat_levels :
         Step(release_done(Mem, sample), "cooldown")

\* the deep-power alarm: the process restarts with its memory lost
LineColdBoot ==
    /\ pc = "halt"
    /\ btn
    /\ Step(StartMem(nvm), "start")

NextEggFire ==
    \/ ButtonChange
    \/ Boot \/ LineColdBoot \/ BootSoundWait \/ BootSoundEnd
    \/ TickButton \/ TickSleepEntry \/ TickSleeping
    \/ TickArmedIdle \/ (\E i \in EggPads : TickFireAny(i)) \/ TickDisarmed
    \/ HoldWait \/ HoldLong \/ ShortPress
    \/ BtnReleaseWait \/ StartSound
    \/ PlayOpenOk \/ PlayOpenMissing \/ MissingDwell
    \/ PlayContinue \/ PlayFinish \/ PlayCancel
    \/ LineReleaseWait \/ LineReleaseDone
    \/ PowerOffShutdown \/ PowerOffWait \/ PowerOffHalt

SpecEggFire == InitEggFire /\ [][NextEggFire]_vars

(* ---- lcd_show and lcd_show_eyes taken alone: called in any order, on    *)
(* ---- contents of which some are the same once fitted to the width       *)
TextCalls ==
    {<<l1, l2, center>> :
        l1 \in {Booting, Booting \o <<" ">>, EASTER_EGG_MSG,
                Take(EASTER_EGG_MSG, LCD_COLS)},
        l2 \in {<<>>, PleaseWait},
        center \in BOOLEAN}

EyeCalls ==
    [text : {TouchAPanel, CLIMATE_MSGS[2], Take(CLIMATE_MSGS[2], LCD_COLS)},
     expr : {<<"center", "none">>, <<"happy", "none">>},
     bat : {<<>>, bat_str(5)},
     mouth : {"none", "smile"}]

ShowText ==
    \E c \in TextCalls :
        LET r == lcd_show(Mem, c[1], c[2], c[3])
        IN  Step(r, IF r.drew > 0 THEN "drawn" ELSE "kept")

ShowEyes ==
    \E c \in EyeCalls :
        LET r == lcd_show_eyes(Mem, c.text, c.expr, c.bat, c.mouth)
        IN  Step(r, IF r.drew > 0 THEN "drawn" ELSE "kept")

NextDisplay == ShowText \/ ShowEyes

InitDisplay == InitWith("off", {RawFull}, {ZeroStore})

SpecDisplay == InitDisplay /\ [][NextDisplay]_vars

(* ---- _write_byte and _i2c_write taken alone, on a bus that another    *)
(* ---- user may hold                                                     *)
\* ENABLE = 0x04 and the nibbles lcd_init and lcd_cmd send
BusBytes == {0, 48, 52, 32}

\* b | bl, bl = 0x08 if _backlight_on else 0x00
WriteByteValue(b, on) ==
    IF on /\ (b \div 8) % 2 = 0 THEN b + 8 ELSE b

\* the finally clause skipped when writeto has raised
unlock_unless_raised(b) ==
    [b EXCEPT !.lock = IF b.raised THEN @ ELSE "free",
              !.pc = IF b.raised THEN "raised" ELSE "idle"]

\* finally: i2c.unlock(); then the return, or the error goes up
unlock(b) ==
    [b EXCEPT !.lock = "free",
              !.pc = IF b.raised THEN "raised" ELSE "idle"]

BusRest == <<envVars, ctlVars, lifeVars, touchVars, countVars, outVars,
             dispVars, animVars, batVars, histVars>>

\* _write_byte(b): _i2c_write(b | bl) is entered
BusCall ==
    /\ bus.pc = "idle"
    /\ Len(bus.wire) < MaxWire
    /\ \E b \in BusBytes :
         bus' = [bus EXCEPT !.pc = "try", !.spins = 0,
                            !.byte = WriteByteValue(b, backlight_on)]
    /\ UNCHANGED BusRest

\* while not i2c.try_lock(): pass -- the lock is held by another user
BusSpin ==
    /\ bus.pc = "try"
    /\ bus.lock # "free"
    /\ bus' = [bus EXCEPT !.spins = Min(@ + 1, MaxSpins)]
    /\ UNCHANGED BusRest

\* i2c.try_lock() returns True
BusLock ==
    /\ bus.pc = "try"
    /\ bus.lock = "free"
    /\ bus' = [bus EXCEPT !.lock = "self", !.pc = "write"]
    /\ UNCHANGED BusRest

\* i2c.writeto(I2C_ADDR, bytes([byte_val])): the byte goes out, or
\* writeto raises OSError (no acknowledge)
BusWrite ==
    /\ bus.pc = "write"
    /\ \E ok \in BOOLEAN :
         bus' = IF ok
                THEN [bus EXCEPT !.wire = Append(@, bus.byte),
                                 !.pc = "unlock"]
                ELSE [bus EXCEPT !.raised = TRUE, !.pc = "unlock"]
    /\ UNCHANGED BusRest

BusUnlock ==
    /\ bus.pc = "unlock"
    /\ bus' = unlock(bus)
    /\ UNCHANGED BusRest

\* another user of the bus takes the lock while it is free, and gives it
\* back
OtherLock ==
    /\ bus.lock = "free"
    /\ bus' = [bus EXCEPT !.lock = "other"]
    /\ UNCHANGED BusRest

OtherUnlock ==
    /\ bus.lock = "other"
    /\ bus' = [bus EXCEPT !.lock = "free"]
    /\ UNCHANGED BusRest

NextBus ==
    \/ BusCall \/ BusSpin \/ BusLock \/ BusWrite \/ BusUnlock
    \/ OtherLock \/ OtherUnlock

SpecBus == InitDisplay /\ [][NextBus]_vars

(* ---- read_battery_pct taken alone: called at any time, on any stream    *)
BatRead ==
    \E sample \in bat_levels :
        Step(read_battery_pct(Mem, sample),
             IF read_battery_pct(Mem, sample) = Mem THEN "cached" ELSE "read")

BatWait ==
    /\ bat_last_read < BatUpdateTicks
    /\ Step(Sleep(Mem, 1), "wait")

NextBattery == BatRead \/ BatWait

InitBattery == InitWith("off", AdcStreams, {ZeroStore})

SpecBattery == InitBattery /\ [][NextBattery]_vars

(* ============================== properties ============================== *)
\* a step of the program: the input lines are as they were
ProgStep == pad' = pad /\ btn' = btn

\* pad i fires in this step
FireOf(i) == ProgStep /\ pc = "loop" /\ ev' = "fire" /\ cur' = i

\* the device's states of the specification's state machine
Disarmed == ~armed /\ ~sleeping /\ pc \notin OffPcs
PoweringOff == pc \in OffPcs

(* ---- C1 ---- *)
\* C1: within one run of the process (the deep power-off restarts it with no
\* memory), between two consecutive fires of a pad the scan has read the
\* pad's line low: a pad fires only if it was read low since its last fire
C1_OneFirePerPress ==
    [][\A i \in Pads : FireOf(i) => lowRead[i]]_vars

\* the same pad has just fired for the second time in a row in one run
C1_Witness ==
    /\ ev = "fire"
    /\ Len(last_pads) = 2
    /\ last_pads[1] = cur /\ last_pads[2] = cur
    /\ lowRead[cur] = FALSE

(* ---- C2 ---- *)
\* C2: a pad fires only if its line has been continuously high for at least
\* the debounce threshold up to the fire: the observed press, when it fired,
\* had been high for DebounceTicks or more
C2_FiresOnlyAfterThreshold ==
    watch.fires >= 1 => watch.fhigh >= DebounceTicks

(* ---- C3 ---- *)
\* C3 as stated: a press that began and stayed while the device was Armed and
\* polling, and whose line was high for the threshold or longer, fired
\* exactly once
C3_ThresholdPressFiresOnce ==
    (watch.st = "ended" /\ watch.clean /\ watch.high >= DebounceTicks)
        => watch.fires = 1

\* C3 amended: while Armed and polling, a pad that the scan has read low
\* since its last fire, and that is still high at a scan at least the
\* threshold after the scan that first read it high, fires at that scan;
\* and such a press never fires twice
C3_ScannedPressFiresOnce ==
    /\ [][(/\ ProgStep
           /\ watch.st = "on" /\ watch.clean /\ watch.fires = 0
           /\ lowRead[watch.p]
           /\ watch.span >= DebounceTicks)
          => (watch'.fires = 1 \/ ~watch'.clean)]_vars
    /\ []((watch.st \in {"on", "ended"} /\ watch.clean) => watch.fires <= 1)

\* a clean press has fired, at the threshold after its first high read
C3_Witness ==
    /\ watch.st = "on" /\ watch.clean /\ watch.fires = 1
    /\ watch.fhigh >= DebounceTicks
    /\ ev = "fire" /\ cur = watch.p

(* ---- C4 ---- *)
\* C4: every press that lasts the debounce threshold while the device is
\* Armed fires, whatever the loop is doing when it begins; stated with two
\* polls of slack: a press that stayed while Armed and was high for
\* DebounceTicks + 2 or more has fired when it ends
C4_NoMissedPress ==
    (watch.st = "ended" /\ watch.armedAll /\ watch.high >= DebounceTicks + 2)
        => watch.fires >= 1

(* ---- C5 ---- *)
\* an effect of a touch: an increment, a change of the easter-egg window, a
\* debounce window opening, a pad latched, a pad's playback started
TouchEffect ==
    \/ interaction_count' # interaction_count
    \/ last_pads' # last_pads
    \/ \E i \in Pads : ~touch_triggered[i] /\ touch_triggered'[i]
    \/ \E i \in Pads : touch_high_since[i] = NoTime
                         /\ touch_high_since'[i] # NoTime
    \/ pc # "open" /\ pc' = "open" /\ ret' = "pad"
    \/ \E i \in Pads : FireOf(i)

\* C5: after boot, fires, increments, window updates and pad playback happen
\* only in a pass of the loop taken Armed and not Sleeping; and a step taken
\* while not Armed leaves each pad's debounce state as it was, but for the
\* Disarmed pass, which clears it for a pad it reads low
C5_TouchOnlyWhileArmed ==
    /\ [][(pc \notin {"boot", "halt"} /\ TouchEffect)
          => (armed /\ ~sleeping /\ pc = "loop")]_vars
    /\ [][(ProgStep /\ ~armed /\ pc \notin {"boot", "halt"})
          => \A i \in Pads :
               \/ /\ touch_triggered'[i] = touch_triggered[i]
                  /\ (touch_high_since'[i] = NoTime)
                       = (touch_high_since[i] = NoTime)
               \/ /\ Disarmed /\ pc = "loop" /\ ~pad[i]
                  /\ touch_high_since'[i] = NoTime
                  /\ ~touch_triggered'[i]]_vars

\* a Disarmed pass of the loop with a pad high, and nothing begun for it
C5_Witness ==
    /\ Disarmed /\ pc = "loop" /\ ev = "idle"
    /\ \E i \in Pads : pad[i] /\ touch_high_since[i] = NoTime

(* ---- C6 ---- *)
\* C6: a pass of the loop taken awake with the inactivity clock at the
\* timeout enters Sleeping, unless the battery is critical (power-off) or the
\* button is read pressed; and Sleeping is entered in no other way
C6_InactivitySleep ==
    /\ [][(ProgStep /\ pc = "loop" /\ ~sleeping
             /\ last_activity >= SleepAfterTicks)
          => (sleeping' \/ pc' = "off" \/ pc' = "hold")]_vars
    /\ [][(~sleeping /\ sleeping')
          => (/\ pc = "loop" /\ ~btn
              /\ last_activity >= SleepAfterTicks
              /\ ~armed' /\ pc' = "loop")]_vars

\* the device fell asleep from Disarmed
C6_Witness == sleeping /\ ev = "sleep_disarmed" /\ pc = "loop"

(* ---- C7 ---- *)
\* C7: a short press read while Sleeping clears sleeping, lights the
\* backlight and resets the display caches (only the boot text, drawn after
\* the reset, is cached); and when the wake returns to the loop the device
\* is Armed, awake, lit, and the animation cursor is at step 0
C7_Wake ==
    /\ [][(ProgStep /\ pc = "hold" /\ sleeping /\ ~btn)
          => (/\ ~sleeping' /\ backlight_on' /\ ret' = "wake"
              /\ last_eye_state' = NoFace
              /\ loaded_expr' = <<NoLine, NoLine>>
              /\ loaded_mouth' = NoLine
              /\ last_lcd' = <<fit_line(Booting, LCD_COLS, TRUE),
                                fit_line(PleaseWait, LCD_COLS, TRUE)>>)]_vars
    /\ [][(ret = "wake" /\ pc # "loop" /\ pc' = "loop")
          => (armed' /\ ~sleeping' /\ backlight_on' /\ eye_idx' = 0)]_vars

\* the wake has just returned to the loop
C7_Witness ==
    /\ pc = "loop" /\ ev = "woke"
    /\ armed /\ ~sleeping /\ backlight_on /\ eye_idx = 0

(* ---- C8 ---- *)
\* C8: the button read pressed at a poll with the hold elapsed powers off;
\* read pressed earlier the wait goes on; read released it is a short press
\* (the inactivity clock and the chatter are reset, no power-off); power-off
\* begins only so or on a critical battery; and once PoweringOff nothing
\* fires, counts, plays or changes state until the restart
C8_ButtonDisambiguation ==
    /\ [][(ProgStep /\ pc = "hold" /\ btn)
          => IF t_wait >= HoldTicks THEN pc' = "off" /\ ev' = "long"
                                    ELSE pc' = "hold"]_vars
    /\ [][(ProgStep /\ pc = "hold" /\ ~btn)
          => (/\ pc' \in {"btn_release", "bootsnd"}
              /\ ev' \in {"short_arm", "short_wake"}
              /\ chatter_idx' = -1)]_vars
    /\ [][(~PoweringOff /\ PoweringOff')
          => \/ pc = "hold" /\ btn /\ t_wait >= HoldTicks
             \/ pc = "loop" /\ bat_pct_cache' <= BAT_CRIT_PCT]_vars
    /\ [][(ProgStep /\ PoweringOff)
          => \/ pc = "halt" /\ btn /\ pc' = "boot"
             \/ /\ PoweringOff'
                /\ UNCHANGED <<armed, sleeping, touch_triggered, countVars>>
                /\ ev' \in {"shutdown", "wait", "halt"}
                /\ ~amp_en' /\ ~audio_playing']_vars

\* a long press taken while Sleeping has powered the device off
C8_Witness == pc = "halt" /\ sleeping /\ ev = "halt"

(* ---- C9 ---- *)
\* C9: a short press read while awake resets the inactivity clock and the
\* chatter and leaves armed as it is; the handler then calls play_wav for
\* the confirmation sound as soon as the button is read released, never
\* disarms, and returns to the loop Armed with the animation cursor at 0
C9_ShortPressArms ==
    /\ [][(ProgStep /\ pc = "hold" /\ ~sleeping /\ ~btn)
          => (/\ pc' = "btn_release" /\ ret' = "arm"
              /\ last_activity' = 0
              /\ chatter_idx' = -1 /\ chatter_t' = 0
              /\ armed' = armed)]_vars
    /\ [][(ProgStep /\ pc = "btn_release" /\ ~btn)
          => (pc' = "open" /\ ret' = ret /\ amp_en')]_vars
    /\ [][(ProgStep /\ ret = "arm"
             /\ pc \in {"btn_release", "open", "missing", "playing"})
          => (/\ armed => armed'
              /\ pc' \in {"btn_release", "open", "missing", "playing", "loop"}
              /\ pc' = "loop" => (armed' /\ ~sleeping' /\ eye_idx' = 0))]_vars

\* the confirmation sound is replayed for a device that is already Armed
C9_Witness ==
    /\ pc = "playing" /\ ret = "arm" /\ armed /\ audio_playing
    /\ interaction_count > 0

(* ---- C10 ---- *)
\* C10: from the entry to PoweringOff until the restart, before the
\* amplifier is disabled (pc = "off") and when the alarm is armed
\* (pc = "halt"), the stored bytes are the count and nothing is pending
C10_FlushBeforeOff ==
    PoweringOff =>
        /\ nvm = ToBytes(interaction_count)
        /\ interaction_pending = 0

\* a long press with a count below the flush threshold, flushed, before
\* the shutdown
C10_Witness ==
    /\ pc = "off" /\ ev = "long"
    /\ interaction_count > 0 /\ interaction_count < FLUSH_EVERY

(* ---- C11 ---- *)
\* C11: whenever the device is Sleeping nothing is pending and the stored
\* bytes are the in-memory count
C11_FlushedWhileSleeping ==
    sleeping =>
        /\ interaction_pending = 0
        /\ nvm = ToBytes(interaction_count)

\* asleep after a number of fires below the flush threshold, which only the
\* flush of go_to_sleep has stored
C11_Witness ==
    /\ sleeping /\ pc = "loop"
    /\ interaction_count % FLUSH_EVERY # 0
    /\ interaction_count \notin Bases
    /\ nvm = ToBytes(interaction_count)

(* ---- C12 ---- *)
\* C12: an increment adds one to the count; it writes the store, to the new
\* count, exactly when it is the tenth since the last flush (nine were
\* pending), and otherwise leaves the store as it was; a flush and a load
\* leave nothing pending
C12_BatchedPersistence ==
    /\ [][ev' = "inc" =>
            /\ interaction_count' = interaction_count + 1
            /\ IF interaction_pending = FLUSH_EVERY - 1
               THEN nvm' = ToBytes(interaction_count')
                    /\ interaction_pending' = 0
               ELSE nvm' = nvm
                    /\ interaction_pending' = interaction_pending + 1]_vars
    /\ [][ev' \in {"flush", "load"} => interaction_pending' = 0]_vars
    /\ [](interaction_pending \in 0 .. FLUSH_EVERY - 1)

\* the tenth increment since the load has just written the store, which
\* the nine before it had left alone
C12_Witness ==
    /\ ev = "inc" /\ interaction_pending = 0
    /\ interaction_count = FLUSH_EVERY
    /\ nvm = ToBytes(FLUSH_EVERY)

(* ---- C13 ---- *)
\* C13: the count survives a power cycle: when the process restarts from
\* the deep-power alarm, the count the boot sequence will load from the
\* store is the in-memory count at the power-off, and the boot sequence
\* loads it
C13_CountSurvivesPowerCycle ==
    /\ [][(pc = "halt" /\ pc' = "boot")
            => LoadInteractionCount(nvm') = interaction_count]_vars
    /\ [][(pc = "boot" /\ pc' # "boot")
            => (interaction_count' = LoadInteractionCount(nvm)
                /\ nvm' = nvm)]_vars

(* ---- C14 ---- *)
\* C14: the store, once a flush has written it, holds a value at most the
\* ceiling of 1,000,000: its top byte is 0 and its low three bytes decode
\* to 1,000,000 or less
C14_StoreUnderCeiling ==
    nvm # ErasedStore =>
        /\ nvm[4] = 0
        /\ nvm[1] + 256 * nvm[2] + 65536 * nvm[3] <= NVM_CEILING

(* ---- C15 ---- *)
\* C15: the boot sequence leaves the store as it is and starts the count at
\* the store's little-endian value, or at 0 when that value is above the
\* ceiling (a non-zero top byte alone makes it 2^24 or more)
C15_CorruptStoreRecovery ==
    [][(pc = "boot" /\ pc' # "boot") =>
        LET low == nvm[1] + 256 * nvm[2] + 65536 * nvm[3]
        IN  /\ nvm' = nvm
            /\ (nvm[4] = 0 /\ low <= NVM_CEILING) => interaction_count' = low
            /\ (nvm[4] # 0 \/ low > NVM_CEILING) => interaction_count' = 0]_vars

\* booted from the erased store, the count at 0
C15_Witness ==
    /\ ev \in {"boot", "booted"}
    /\ nvm = ErasedStore
    /\ interaction_count = 0

(* ---- C16 ---- *)
\* the text the face on the display carries
ShownText == last_eye_state[5]

\* C16: when a fire's playback (or easter egg) is over and the wait for
\* release begins, the display carries the celebration of the count if and
\* only if the count, incremented by that fire, is 50, 100, 200, 500 or
\* 1000; it stays through the wait for release, before the idle screen is
\* drawn again; and the celebration appears at no other step
C16_Milestone ==
    /\ [][(ProgStep /\ pc # "release" /\ pc' = "release") =>
            ((ShownText' = fit_line(PokedTimes(interaction_count'),
                                    LCD_COLS, FALSE))
                <=> interaction_count' \in {50, 100, 200, 500, 1000})]_vars
    /\ [][(pc = "release" /\ pc' = "release") =>
            UNCHANGED <<last_eye_state, last_lcd, interaction_count>>]_vars
    /\ [][(ShownText' # ShownText /\ Len(ShownText') >= Len(PokedWord)
           /\ SubSeq(ShownText', 1, Len(PokedWord)) = PokedWord) =>
            (pc # "release" /\ pc' = "release")]_vars

\* booted with 49 persisted, the first fire has made the count 50 and its
\* playback is over: the celebration is on the display
C16_Witness ==
    /\ pc = "release" /\ ev = "played"
    /\ interaction_count = 50 /\ interaction_pending = 1
    /\ ShownText = fit_line(PokedTimes(50), LCD_COLS, FALSE)

(* ---- C17 ---- *)
\* C17: a fire is the easter egg if and only if it is at least the third
\* fire since boot or since the last egg and it and the two fires before
\* it were pads 0, 2, 4 in that order; the window never holds more than 3
\* entries and is empty after an egg
C17_EasterEgg ==
    LET LastEgg(k) ==
            IF \E j \in 1 .. k - 1 : fired[j].egg
            THEN CHOOSE j \in 1 .. k - 1 :
                    fired[j].egg /\ \A h \in j + 1 .. k - 1 : ~fired[h].egg
            ELSE 0
    IN  /\ \A k \in 1 .. Len(fired) :
              fired[k].egg <=>
                  /\ k - LastEgg(k) >= 3
                  /\ <<fired[k - 2].p, fired[k - 1].p, fired[k].p>>
                         = <<0, 2, 4>>
        /\ Len(last_pads) <= 3
        /\ (fired # <<>> /\ fired[Len(fired)].egg) => last_pads = <<>>

\* pads 0, 2, 4, 4 fired since boot: the third fire was the egg, the
\* fourth was not
C17_Witness ==
    /\ Len(fired) = 4
    /\ [k \in 1 .. 4 |-> fired[k].p] = <<0, 2, 4, 4>>
    /\ [k \in 1 .. 4 |-> fired[k].egg] = <<FALSE, FALSE, TRUE, FALSE>>
    /\ last_pads = <<4>>

(* ---- C18 ---- *)
\* pad j would fire if the scan reached it
Eligible(j) ==
    /\ pad[j] /\ ~touch_triggered[j]
    /\ touch_high_since[j] # NoTime
    /\ touch_high_since[j] >= DebounceTicks

\* C18: a tick fires at most one pad, the lowest-indexed eligible one: the
\* count grows by 1, and every pad after it keeps its debounce state (not
\* latched, its window still open) for a later tick
C18_OneFirePerTick ==
    [][(ProgStep /\ pc = "loop" /\ ev' = "fire") =>
        /\ interaction_count' = interaction_count + 1
        /\ Eligible(cur')
        /\ \A j \in Pads : j < cur' => ~Eligible(j)
        /\ \A j \in Pads : j > cur' =>
              /\ touch_triggered'[j] = touch_triggered[j]
              /\ (touch_high_since'[j] = NoTime)
                     <=> (touch_high_since[j] = NoTime)
              /\ Eligible(j) =>
                     (~touch_triggered'[j]
                      /\ touch_high_since'[j] >= DebounceTicks)]_vars

\* pad 0 has fired in a tick in which pad 1 was eligible too; pad 1 is
\* still eligible
C18_Witness ==
    /\ ev = "fire" /\ cur = 0 /\ pc = "open"
    /\ Eligible(1)

(* ---- C19 ---- *)
\* C19: the wait for release ends at the poll that reads the pad low or
\* finds the timeout passed, and until then each poll adds to the time
\* waited, which is bounded; a pad that is high and latched does not fire
\* and stays latched; an idle tick never resets the inactivity clock; and
\* with such a pad held, the tick that finds the inactivity timeout
\* elapsed puts the device to sleep
C19_StuckPad ==
    /\ [][(ProgStep /\ pc = "release") =>
            IF ~pad[cur] \/ t_wait > ReleaseTicks
            THEN pc' = "loop" /\ ev' = "cooldown"
            ELSE pc' = "release" /\ t_wait' = t_wait + 1]_vars
    /\ [](pc = "release" => t_wait <= ReleaseTicks + 1)
    /\ [][\A i \in Pads :
            (ProgStep /\ pc # "halt" /\ pad[i] /\ touch_triggered[i]) =>
                (~FireOf(i) /\ touch_triggered'[i])]_vars
    /\ [][(ProgStep /\ pc = "loop" /\ ev' = "idle") =>
            last_activity' = Min(last_activity + 1, SleepAfterTicks)]_vars
    /\ [][(/\ ProgStep /\ pc = "loop" /\ ~btn /\ ~sleeping
           /\ last_activity >= SleepAfterTicks
           /\ \E i \in Pads : pad[i] /\ touch_triggered[i])
            => (sleeping' \/ pc' = "off")]_vars

\* a pad that fired and has not been read low since is still high when the
\* device, Armed, goes to sleep
C19_Witness ==
    /\ sleeping /\ ev = "sleep_armed"
    /\ \E i \in Pads : pad[i] /\ touch_triggered[i] /\ ~lowRead[i]

C22_BatteryPercent ==
    /\ [](IF sampled = <<>> THEN bat_pct_cache = -1
          ELSE bat_pct_cache \in 0 .. 100)
    /\ [](\A v \in AdcValues :
            sampled = <<v, v, v, v, v>> =>
                LET x == (990 * 5 * v - 104856000) \div 327675
                IN  bat_pct_cache =
                        IF x < 0 THEN 0 ELSE IF x > 100 THEN 100 ELSE x)
    /\ [][(ev' \in {"read", "cached"} /\ bat_pct_cache >= 0
           /\ bat_last_read < BatUpdateTicks)
            => UNCHANGED <<bat_pct_cache, bat_last_read, sampled>>]_vars
    /\ [][(ev' \in {"read", "cached"}
           /\ ~(bat_pct_cache >= 0 /\ bat_last_read < BatUpdateTicks))
            => bat_last_read' = 0]_vars

\* a call answered from the cache: the percent of the stream sampled
\* before it, a mixed one that reads 94
C22_Witness ==
    /\ ev = "cached" /\ bat_last_read = 0
    /\ sampled = <<0, 21515, 24000, 26000, 65535>>
    /\ bat_pct_cache = 94


\* C23: cancellation is polled.  At a poll of a pad's playback with the arm
\* button asserted the playback stops there: the audio is stopped, the
\* amplifier is off and play_wav is left, with the device still armed; a
\* pad's playback is cancelled at no other poll; at a poll of the
\* arm-confirmation sound, whatever the button, the playback either goes on
\* or ends because the clip is over, never cancelled.
C23_Cancellation ==
    [][(ProgStep /\ pc = "playing") =>
          /\ (ret = "pad" /\ btn) =>
                /\ ev' \in {"cancelled", "played"}
                /\ pc' # "playing" /\ ~audio_playing' /\ ~amp_en'
                /\ armed /\ armed' /\ ~sleeping'
          /\ ev' = "cancelled" => (ret = "pad" /\ btn)
          /\ ret # "pad" =>
                \/ pc' = "playing" /\ audio_playing' /\ ev' = "playing"
                \/ ev' \in {"armed", "woke"} /\ pc' = "loop"]_vars

\* a pad's playback cancelled by the button, the device armed and waiting
\* for the pad's release
C23_Witness ==
    /\ ev = "cancelled" /\ btn /\ armed
    /\ pc = "release" /\ ~audio_playing /\ ~amp_en


\* C24 as stated: on an open failure the "missing file" screen is shown
\* and held for its dwell with the amplifier still enabled, and the
\* amplifier is disabled when the dwell is over.
C24_MissingThenAmpOff ==
    /\ [](pc = "missing" => amp_en)
    /\ [][(ProgStep /\ pc = "missing") => ~amp_en']_vars

\* C24 amended: on an open failure the amplifier, enabled for the
\* playback, is disabled first; the "missing file" screen is then shown
\* and held for its dwell with the amplifier disabled, and the dwell ends
\* with the amplifier still disabled.
C24_AmpOffThenMissing ==
    /\ [][(ProgStep /\ pc = "open" /\ pc' = "missing") =>
             /\ amp_en /\ ~amp_en'
             /\ last_lcd'[1] = fit_line(MissingFile, LCD_COLS, FALSE)]_vars
    /\ [](pc = "missing" =>
             ~amp_en /\ last_lcd[1] = fit_line(MissingFile, LCD_COLS, FALSE))
    /\ [][(ProgStep /\ pc = "missing") =>
             ~amp_en' /\ pc' # "missing"]_vars

\* the "missing file" screen of a pad's clip, held with the amplifier off
C24_Witness ==
    /\ pc = "missing" /\ ev = "missing" /\ ret = "pad"
    /\ last_lcd[1] = fit_line(MissingFile, LCD_COLS, FALSE) /\ ~amp_en


\* C25: whatever the outcome of a playback, play_wav returns with the
\* amplifier enable false and the lifecycle state as it was: at every poll
\* the end of play_wav, and at every opening its failure branch, leave
\* armed and sleeping alone and the amplifier off; the step that ends a
\* playback (completed, cancelled, or after the dwell of a missing asset)
\* hands control back to the loop's code, never to the power-off, with
\* the amplifier off, the lifecycle unchanged after a pad's clip and Armed
\* after the arm-confirmation sound; and the amplifier is off at every
\* main-loop tick boundary.
C25_PlayReturns ==
    /\ [](pc = "loop" => ~amp_en)
    /\ [](pc = "playing" =>
             LET e == play_end(Mem)
             IN  ~e.amp_en /\ ~e.audio_playing
                 /\ e.armed = armed /\ e.sleeping = sleeping)
    /\ [](pc = "open" =>
             LET e == play_missing(Mem)
             IN  ~e.amp_en /\ e.armed = armed /\ e.sleeping = sleeping)
    /\ [][(ProgStep /\ pc \in {"playing", "missing"}
            /\ pc' \notin {"playing", "missing"}) =>
             /\ ~amp_en' /\ ~audio_playing'
             /\ ev' \in {"played", "cancelled", "armed", "woke"}
             /\ pc' \in {"release", "loop"}
             /\ sleeping' = sleeping
             /\ armed' = IF ret = "pad" THEN armed ELSE TRUE]_vars

\* a pad's clip that could not be opened: the dwell is over, the device
\* is armed and waits for the pad's release, the amplifier off
C25_Witness ==
    /\ ev = "played" /\ pc = "release" /\ armed /\ ~amp_en
    /\ last_lcd[1] = fit_line(MissingFile, LCD_COLS, FALSE)


\* C26: apart from the button hold and the power-off wait, no wait of the
\* loop goes on for as long as its input is held: the wait for the pad's
\* release and the wait for the button's release before the
\* arm-confirmation sound (on arming and in the wake sequence) are over by
\* the time the pad release timeout has run out, whatever the inputs do.
C26_WaitsEnd ==
    [](pc \in {"release", "btn_release"} => t_wait <= ReleaseTicks + 1)


\* part occurs in line, whole
Contains(line, part) ==
    \E i \in 1 .. (Len(line) - Len(part) + 1) :
        SubSeq(line, i, i + Len(part) - 1) = part

\* the idle screen an idle pass of the loop has drawn, against the time
\* left before sleep at that pass (prompt: the screen's own text)
IdleScreenOk(prompt) ==
    LET rem == SleepAfterTicks - last_activity
        face == last_eye_state'
        label == bat_str(bat_pct_cache')
    IN  IF rem <= CountdownTicks
        THEN /\ face[1] = "sleepy"
             /\ Len(face[5]) = LCD_COLS
             /\ Take(face[5], Len(prompt)) = prompt
             /\ Contains(face[5], Countdown(rem))
             /\ Contains(face[5], label)
        ELSE /\ <<face[1], face[2]>> = EYE_SEQUENCE[eye_idx' + 1].expr
             /\ face[4] = label
             /\ face[5] = lcd_line(IF chatter_idx < 0 THEN prompt
                                   ELSE CLIMATE_MSGS[chatter_idx' + 1],
                                   label, LCD_COLS)

\* C30: an idle pass of the loop made when the time left before sleep is
\* at most the countdown window draws, Armed or Disarmed, the 'sleepy'
\* expression and a bottom row of 20 characters that starts with the
\* screen's prompt and contains the m:ss countdown of the time left and
\* the complete battery label; a pass made outside the window draws the
\* animation's expression and the chatter text with the battery label.
C30_IdleScreen ==
    [][(ProgStep /\ pc = "loop" /\ ev' = "idle") =>
          IdleScreenOk(IF armed THEN TouchAPanel ELSE PressIO)]_vars


\* the content a call of lcd_show renders: the two fitted lines
TextContent(c) ==
    Glass("text", NoFace,
          <<fit_line(c[1], LCD_COLS, c[3]), fit_line(c[2], LCD_COLS, c[3])>>)

\* the content a call of lcd_show_eyes renders: the face-state tuple
EyeContent(c) ==
    Glass("eyes",
          <<c.expr[1], c.expr[2],
            IF c.mouth = "none" THEN MOUTH_FOR_EXPR[c.expr[1]] ELSE c.mouth,
            c.bat,
            IF c.bat # <<>> THEN lcd_line(c.text, c.bat, LCD_COLS)
            ELSE fit_line(c.text, LCD_COLS, FALSE)>>,
          <<NoText, NoText>>)

\* what a call (r: the memory after it, content: what it renders) may do
\* to the glass, and what the same call made again (again) does
DetectsChange(r, again, content) ==
    /\ r.drew \in {0, 1}
    /\ r.drew = 1 => (content # screen /\ r.screen = content)
    /\ r.drew = 0 => [r EXCEPT !.stale = FALSE] = Mem
    /\ (screen.kind = content.kind /\ content # screen) => r.drew = 1
    /\ again = r

\* C27: whatever calls of lcd_show and lcd_show_eyes came before, a call
\* clears and repaints at most once, and only a content (the two fitted
\* lines, the face-state tuple) that differs from the content of the
\* repaint before it; a call that does not repaint changes nothing; a
\* content that differs from the last repaint of the same function is
\* repainted; and the same call made again right after repaints nothing,
\* so the same content rendered twice in a row is written once.
C27_ChangeDetection ==
    [](/\ \A c \in TextCalls :
            LET r == lcd_show(Mem, c[1], c[2], c[3])
            IN  DetectsChange(r, lcd_show(r, c[1], c[2], c[3]),
                              TextContent(c))
       /\ \A c \in EyeCalls :
            LET r == lcd_show_eyes(Mem, c.text, c.expr, c.bat, c.mouth)
            IN  DetectsChange(r,
                              lcd_show_eyes(r, c.text, c.expr, c.bat, c.mouth),
                              EyeContent(c)))

\* two lines rendered, after a face, a second time: nothing is repainted
C27_Witness ==
    /\ ev = "kept"
    /\ screen = TextContent(<<Booting, PleaseWait, TRUE>>)
    /\ last_eye_state # NoFace


\* C28: a byte goes on the wire only in a step taken with the lock held
\* by the program, and it is the byte _i2c_write was called with; a call
\* that finds the lock taken stays at try_lock with its byte and leaves
\* it only by taking the lock, then writes; the step after writeto frees
\* the lock whether writeto raised or not; and outside the write and its
\* finally clause the program never holds the lock.
C28_BusLock ==
    /\ [][bus'.wire # bus.wire =>
             /\ bus.pc = "write" /\ bus.lock = "self" /\ bus'.lock = "self"
             /\ bus'.wire = Append(bus.wire, bus.byte)]_vars
    /\ [][(bus.pc = "try" /\ bus' # bus) =>
             /\ bus'.byte = bus.byte /\ bus'.wire = bus.wire
             /\ \/ bus'.pc = "try"
                \/ bus.lock = "free" /\ bus'.lock = "self"
                   /\ bus'.pc = "write"]_vars
    /\ [][(bus.pc = "unlock" /\ bus' # bus) =>
             /\ bus'.lock = "free"
             /\ bus'.pc = IF bus.raised THEN "raised" ELSE "idle"]_vars
    /\ [](bus.lock = "self" <=> bus.pc \in {"write", "unlock"})

\* a byte written after two failed try_lock calls, then a write that
\* raised: the lock is free again
C28_Witness ==
    /\ bus.pc = "raised" /\ bus.lock = "free"
    /\ bus.wire = <<56>> /\ bus.spins = MaxSpins


\* C29: the cursor of the animation is always an index of EYE_SEQUENCE.
\* A call of _current_eye, in any state the program reaches and whatever
\* the age of the step, moves the cursor on by one step (modulo the
\* length) and restarts the step's clock if that age is at least the
\* step's duration, leaves both alone otherwise, touches nothing else, and
\* returns the expression of the step the cursor is then at;
\* _reset_eye_anim puts the cursor at step 0 with the clock at now; and no
\* step of the program moves the cursor by more than one step, except
\* back to step 0.
C29_Animation ==
    /\ [](eye_idx \in 0 .. (Len(EYE_SEQUENCE) - 1) /\ eye_idx < EyeLen)
    /\ [](LET r == current_eye(Mem)
              due == eye_t >= EYE_SEQUENCE[eye_idx + 1].dur
          IN  /\ r.s.eye_idx = IF due THEN (eye_idx + 1) % EyeLen
                                ELSE eye_idx
              /\ r.s.eye_t = IF due THEN 0 ELSE eye_t
              /\ r.name = EYE_SEQUENCE[r.s.eye_idx + 1].expr
              /\ [r.s EXCEPT !.eye_idx = eye_idx, !.eye_t = eye_t] = Mem)
    /\ [](LET r == reset_eye_anim(Mem)
          IN  /\ r.eye_idx = 0 /\ r.eye_t = 0
              /\ [r EXCEPT !.eye_idx = eye_idx, !.eye_t = eye_t] = Mem)
    /\ [][eye_idx' \in {eye_idx, (eye_idx + 1) % EyeLen, 0}]_vars

\* an idle pass has moved the cursor on to the third step, whose
\* expression is on the display, and restarted the step's clock
C29_Witness ==
    /\ ev = "idle" /\ ~sleeping
    /\ eye_idx = 2 /\ eye_t = 1
    /\ <<last_eye_state[1], last_eye_state[2]>> = EYE_SEQUENCE[3].expr


(* C31: the change-detection cache stays synchronised with the display:   *)
(* whenever lcd_show or lcd_show_eyes returns, the glass shows what that  *)
(* call was asked to show; no step of the program has such a call return  *)
(* with the glass showing something else.                                 *)
C31_DisplayMatchesRequest == ~stale


(* ---- C32 ---- *)
\* the four states of the lifecycle, each by the flags as they are
LifeStates == {"Disarmed", "Armed", "Sleeping", "PoweringOff"}
InLife(n) ==
    CASE n = "PoweringOff" -> pc \in OffPcs
      [] n = "Sleeping" -> sleeping /\ pc \notin OffPcs
      [] n = "Armed" -> armed /\ pc \notin OffPcs
      [] n = "Disarmed" -> ~armed /\ ~sleeping /\ pc \notin OffPcs

\* C32: in every reachable state, within a handler as at the top of the
\* loop, the flags sleeping and armed are not both true, and the device is
\* in exactly one of Disarmed (neither flag), Armed, Sleeping, PoweringOff
C32_LifecycleWellFormed ==
    /\ ~(sleeping /\ armed)
    /\ Cardinality({n \in LifeStates : InLife(n)}) = 1

\* the Armed device has just gone to sleep: go_to_sleep has cleared armed
\* and set sleeping
C32_Witness ==
    ev = "sleep_armed" /\ sleeping /\ ~armed /\ pc = "loop"


(* ---- C33 ---- *)
\* the moves of the lifecycle between two tick boundaries
LifeMoves ==
    {<<"Disarmed", "Armed">>, <<"Disarmed", "Sleeping">>,
     <<"Armed", "Armed">>, <<"Armed", "Sleeping">>,
     <<"Sleeping", "Armed">>}
    \cup {<<a, "PoweringOff">> : a \in LifeStates}

\* the restart of the process after power_off, and the end of its boot
\* sequence
BootMoves == {<<"PoweringOff", "ColdBoot">>, <<"ColdBoot", "Disarmed">>}

\* a handler has come back to the top of the main loop, or a pass of the
\* loop has changed the lifecycle state or entered power_off
TickMove ==
    /\ ProgStep
    /\ pc' = "loop" \/ pc' \in OffPcs
    /\ pc # pc' \/ tick_life' # tick_life

\* C33: from one tick boundary of the main loop to the next the lifecycle
\* state moves only Disarmed->Armed, Disarmed->Sleeping, Armed->Armed,
\* Armed->Sleeping, Sleeping->Armed or from any state to PoweringOff;
\* Disarmed is entered only by the restart of the process after power_off
\* (cold boot), never from Armed or Sleeping
C33_Transitions ==
    /\ [](pc = "loop" => tick_life = Life(Mem) /\ InLife(tick_life))
    /\ [][TickMove =>
            <<tick_life, tick_life'>> \in LifeMoves \cup BootMoves]_vars
    /\ [][tick_life' # tick_life =>
            /\ tick_life' = "Disarmed" =>
                  tick_life = "ColdBoot" /\ ev' = "booted"
            /\ tick_life' = "ColdBoot" =>
                  tick_life = "PoweringOff" /\ pc = "halt" /\ pc' = "boot"
            /\ tick_life = "ColdBoot" => tick_life' = "Disarmed"]_vars

\* the Sleeping device, woken by a short press, is back at the top of the
\* loop, Armed
C33_Witness ==
    ev = "woke" /\ pc = "loop" /\ tick_life = "Armed" /\ armed /\ ~sleeping


(* ---- C34 ---- *)
\* the fire of this step is the easter egg
EggStep == ProgStep /\ pc = "loop" /\ ev' = "fire" /\ fired'[1].egg

\* the handling of an easter-egg fire is in its wait for release
EggRelease == pc = "release" /\ fired # <<>> /\ fired[1].egg

\* the time the handler spends between the fire and the wait for release:
\* the egg's 3 s, and the 3 s of the milestone at a milestone count
EggDwell(count) ==
    PauseTicks + IF count \in MILESTONES THEN PauseTicks ELSE 0

\* C34: a fire that is the easter egg starts no playback: play_wav is not
\* entered, the amplifier stays disabled and no clip plays, up to the end
\* of the handling.  The fire still resets the inactivity clock and the
\* chatter (both are as old as the handler's dwell), adds 1 to the
\* interaction counter, runs the milestone check (the celebration of the
\* count is shown at a milestone, the egg's message otherwise), enters the
\* wait for release of the fired pad, and the wait ends in the cooldown.
C34_EggFire ==
    /\ [][EggStep =>
            /\ pc' = "release" /\ ret' = "pad" /\ cur' = fired'[1].p
            /\ t_wait' = 0
            /\ ~amp_en /\ ~amp_en' /\ ~audio_playing'
            /\ last_activity' = EggDwell(interaction_count')
            /\ chatter_idx' = -1
            /\ chatter_t' = Min(EggDwell(interaction_count'), ChatterTicks)
            /\ interaction_count' = interaction_count + 1
            /\ ShownText' =
                 fit_line(IF interaction_count' \in MILESTONES
                          THEN PokedTimes(interaction_count')
                          ELSE EASTER_EGG_MSG, LCD_COLS, FALSE)]_vars
    /\ [](EggRelease => ~amp_en /\ ~audio_playing)
    /\ [][(EggRelease /\ ProgStep) =>
            \/ /\ pc' = "release" /\ ~ReleaseTimedOut(t_wait)
               /\ t_wait' = t_wait + 1
               /\ UNCHANGED <<amp_en, audio_playing, interaction_count>>
            \/ /\ pc' = "loop" /\ ev' = "cooldown"
               /\ last_activity' =
                    Min(last_activity + PauseTicks + 1, SleepAfterTicks)
               /\ UNCHANGED <<amp_en, audio_playing, interaction_count>>]_vars

\* pads 0, 2, 4 have fired in a row and the third fire, the egg, has made
\* the count the first milestone: no clip, the celebration of the count on
\* the display, the wait for release begun
C34_Witness ==
    /\ ev = "fire" /\ EggRelease /\ fired[1].p = 4
    /\ interaction_count = FirstMilestone
    /\ ~amp_en /\ ~audio_playing
    /\ ShownText = fit_line(PokedTimes(FirstMilestone), LCD_COLS, FALSE)


(* ---- C35 ---- *)
\* int.from_bytes(raw, "little") of a store whose top byte is 0 (every
\* count below 2^24 is stored so)
FromBytes(raw) == raw[1] + 256 * raw[2] + 65536 * raw[3]

\* the store holds no count _load_interaction_count accepts
StoreInvalid(raw) == raw[4] # 0 \/ FromBytes(raw) > NVM_CEILING

\* the counter is between two of its operations: the program is at the top
\* of its main loop, or (the counter taken alone) past the load
CounterAtRest == pc = "loop" \/ ev \in {"load", "inc", "flush"}

\* C35: at every tick boundary the pending count is in 0 .. 9; it is 0
\* right after any flush, which leaves the store equal to the count; and
\* the count minus the persisted value is the pending count, so that the
\* store lags the count by at most 9, unless the store held no valid value
\* at boot and has not been written since (the count then started at 0 and
\* is itself the pending count)
C35_WriteBack ==
    /\ [](CounterAtRest => interaction_pending \in 0 .. FLUSH_EVERY - 1)
    /\ [][(ev' = "flush" \/ nvm' # nvm) =>
            /\ interaction_pending' = 0
            /\ nvm' = ToBytes(interaction_count')
            /\ nvm'[4] = 0 /\ FromBytes(nvm') = interaction_count']_vars
    /\ [](CounterAtRest =>
            \/ /\ nvm[4] = 0
               /\ interaction_count - FromBytes(nvm) = interaction_pending
               /\ interaction_count - FromBytes(nvm) \in 0 .. 9
            \/ /\ StoreInvalid(nvm)
               /\ interaction_count = interaction_pending)

\* the store written at the tenth increment, two increments later: the
\* store holds 10, the count is 12, two are pending
C35_Witness ==
    /\ ev = "inc" /\ interaction_pending = 2
    /\ interaction_count = FLUSH_EVERY + 2
    /\ nvm = ToBytes(FLUSH_EVERY)

=============================================================================
